---------------------------- MODULE Spec2Model ----------------------------
(***************************************************************************)
(* Authentication and profile-update subsystem of the meal-planner          *)
(* backend: the USER table, the users blueprint (GET/PUT /api/users/me,     *)
(* PUT /api/users/me/password), the request schemas, and the auth service   *)
(* (register / login) the blueprint relies on.                              *)
(*                                                                         *)
(* Strings are sequences of one-character strings, so that length checks,  *)
(* str.upper(), str.isdigit() and str.isalpha() are computed, not assumed. *)
(***************************************************************************)
EXTENDS Integers, Sequences, FiniteSets, TLC

VARIABLES
    users,      \* table USER: id -> row
    nextId,     \* autoincrement sequence of USER.id
    nextSalt,   \* source of fresh bcrypt salts (bcrypt.gensalt())
    now,        \* wall clock (datetime.utcnow / JWT time)
    held,       \* the access token the client keeps from its last login
    reqs,       \* registrations in flight: worker -> request record
    served,     \* number of requests received so far
    last,       \* the last request answered and its response
    conn,       \* globals of database/connection.py: _engine, _SessionLocal
    calls       \* calls into database/connection.py in progress: worker -> frame

vars == <<users, nextId, nextSalt, now, held, reqs, served, last, conn, calls>>

---------------------------------------------------------------------------
(* Bounds of the model *)

MaxRequests == 3     \* requests in one run
MaxTime == 2         \* clock ticks in one run
MaxWorkers == 2      \* registrations handled at the same time
TokenTTL == 2        \* JWT_ACCESS_TOKEN_EXPIRES, in clock ticks

---------------------------------------------------------------------------
(* Characters and strings *)

Lower == <<"a","b","c","d","e","f","g","h","i","j","k","l","m",
           "n","o","p","q","r","s","t","u","v","w","x","y","z">>
Capital == <<"A","B","C","D","E","F","G","H","I","J","K","L","M",
             "N","O","P","Q","R","S","T","U","V","W","X","Y","Z">>
Digit == {"0","1","2","3","4","5","6","7","8","9"}

Letters == {Lower[i] : i \in 1..26} \cup {Capital[i] : i \in 1..26}

\* the three markers are one-element sequences whose element is no character,
\* so they are comparable with, and different from, every string
Absent == <<"<absent>">>
Null == <<"<null>">>
None == <<"<None>">>

\* a request body that is no JSON document
Malformed == [malformed |-> TRUE]

Rep(c, n) == [i \in 1..n |-> c]

Min(a, b) == IF a < b THEN a ELSE b

\* str.isdigit / str.isalpha on one character
isdigit(c) == c \in Digit
isalpha(c) == c \in Letters \cup {"ß"}

\* str.upper() on one character: "ß" has no single upper-case code point
CharUpper(c) ==
    IF c = "ß" THEN <<"S","S">>
    ELSE IF \E i \in 1..26 : Lower[i] = c
         THEN <<Capital[CHOOSE i \in 1..26 : Lower[i] = c]>>
         ELSE <<c>>

RECURSIVE upper(_)
upper(s) == IF s = <<>> THEN <<>> ELSE CharUpper(Head(s)) \o upper(Tail(s))

IsStr(v) == v \notin {Absent, Null, None}

\* the value a JSON body supplies for a key, as it is to be stored
Supplied(json, f) == IF f = "countryCode" THEN upper(json[f]) ELSE json[f]

---------------------------------------------------------------------------
(* Request schemas (pydantic) *)

ProfileFields == {"fullName", "sex", "phoneNumber", "addressLine1", "addressLine2",
                  "city", "stateProvinceCode", "countryCode", "postalCode"}
IdentityKeys == {"id", "email", "username"}
UpdateKeys == ProfileFields \cup IdentityKeys
RegisterKeys == ProfileFields \cup {"email", "username", "password"}

MALE == <<"M","A","L","E">>
FEMALE == <<"F","E","M","A","L","E">>
OTHER_ == <<"O","T","H","E","R">>
SexEnum == {MALE, FEMALE, OTHER_}

\* Field(..., min_length, max_length) on a str
LenBetween(v, lo, hi) == IsStr(v) /\ Len(v) >= lo /\ Len(v) <= hi

\* Optional[str] = Field(None, ...): a missing key and a JSON null both pass
OptionalLen(v, lo, hi) == v \in {Absent, Null} \/ LenBetween(v, lo, hi)

\* the value a validated model holds for an Optional field
OrNone(v) == IF v \in {Absent, Null} THEN None ELSE v

\* a strength check that asks for a digit only
password_strength_digit_only(v) == \E i \in 1..Len(v) : isdigit(v[i])

\* UserRegisterSchema, @validator('password')
password_strength(v) ==
    /\ \E i \in 1..Len(v) : isdigit(v[i])
    /\ \E i \in 1..Len(v) : isalpha(v[i])

\* PasswordChangeSchema, @validator('newPassword')
newPassword_strength(v) ==
    /\ \E i \in 1..Len(v) : isdigit(v[i])
    /\ \E i \in 1..Len(v) : isalpha(v[i])

\* @validator('username')
username_valid_chars(v) ==
    \A i \in 1..Len(v) : v[i] \in Letters \cup Digit \cup {"_", "-"}

\* @validator('countryCode') of both schemas: v.upper() (None is left alone)
country_code_uppercase(v) == IF v = None \/ v = <<>> THEN v ELSE upper(v)

\* EmailStr: one "@", a non-empty local part, a dotted domain
EmailStr(v) ==
    /\ IsStr(v)
    /\ Cardinality({i \in 1..Len(v) : v[i] = "@"}) = 1
    /\ LET at == CHOOSE i \in 1..Len(v) : v[i] = "@"
       IN /\ at > 1
          /\ \E d \in (at + 2)..(Len(v) - 1) : v[d] = "."
          /\ v[at + 1] # "." /\ v[Len(v)] # "."

\* UserUpdateSchema with the state/province rule of UserRegisterSchema
UserUpdateSchemaOkAsRegister(json) ==
    /\ OptionalLen(json["fullName"], 1, 255)
    /\ json["sex"] \in {Absent, Null} \cup SexEnum
    /\ OptionalLen(json["phoneNumber"], 0, 50)
    /\ OptionalLen(json["addressLine1"], 1, 255)
    /\ OptionalLen(json["addressLine2"], 0, 255)
    /\ OptionalLen(json["city"], 1, 100)
    /\ OptionalLen(json["stateProvinceCode"], 1, 10)
    /\ OptionalLen(json["countryCode"], 2, 2)
    /\ OptionalLen(json["postalCode"], 1, 20)

\* UserUpdateSchema: which JSON bodies validate
UserUpdateSchemaOk(json) ==
    /\ OptionalLen(json["fullName"], 1, 255)
    /\ json["sex"] \in {Absent, Null} \cup SexEnum
    /\ OptionalLen(json["phoneNumber"], 0, 50)
    /\ OptionalLen(json["addressLine1"], 1, 255)
    /\ OptionalLen(json["addressLine2"], 0, 255)
    /\ OptionalLen(json["city"], 1, 100)
    /\ OptionalLen(json["stateProvinceCode"], 2, 2)
    /\ OptionalLen(json["countryCode"], 2, 2)
    /\ OptionalLen(json["postalCode"], 1, 20)

\* UserUpdateSchema: the validated body (unknown keys are ignored)
UserUpdateSchema(json) ==
    [f \in ProfileFields |->
        IF f = "countryCode" THEN country_code_uppercase(OrNone(json[f]))
        ELSE OrNone(json[f])]

\* UserRegisterSchema: which JSON bodies validate
UserRegisterSchemaOk(json) ==
    /\ EmailStr(json["email"])
    /\ LenBetween(json["username"], 3, 100)
    /\ username_valid_chars(json["username"])
    /\ IsStr(json["password"]) /\ Len(json["password"]) >= 8
    /\ password_strength(json["password"])
    /\ LenBetween(json["fullName"], 1, 255)
    /\ json["sex"] \in SexEnum
    /\ OptionalLen(json["phoneNumber"], 0, 50)
    /\ LenBetween(json["addressLine1"], 1, 255)
    /\ OptionalLen(json["addressLine2"], 0, 255)
    /\ LenBetween(json["city"], 1, 100)
    /\ LenBetween(json["stateProvinceCode"], 1, 10)
    /\ LenBetween(json["countryCode"], 2, 2)
    /\ LenBetween(json["postalCode"], 1, 20)

\* UserRegisterSchema without its countryCode validator
UserRegisterSchemaNoUpper(json) ==
    [f \in RegisterKeys |->
        IF f \in {"phoneNumber", "addressLine2"} THEN OrNone(json[f]) ELSE json[f]]

\* UserRegisterSchema: the validated body
UserRegisterSchema(json) ==
    [f \in RegisterKeys |->
        IF f = "countryCode" THEN upper(json[f])
        ELSE IF f \in {"phoneNumber", "addressLine2"} THEN OrNone(json[f])
        ELSE json[f]]

\* UserLoginSchema
UserLoginSchemaOk(json) ==
    /\ IsStr(json["login"])
    /\ IsStr(json["password"]) /\ Len(json["password"]) >= 1

\* PasswordChangeSchema
PasswordChangeSchemaOk(json) ==
    /\ IsStr(json["currentPassword"]) /\ Len(json["currentPassword"]) >= 1
    /\ IsStr(json["newPassword"]) /\ Len(json["newPassword"]) >= 8
    /\ newPassword_strength(json["newPassword"])

\* one entry of ValidationError.errors(): the field that failed
Failing(f, ok) == IF ok THEN {} ELSE {f}

\* the fields of a body that UserRegisterSchema rejects, all of them
UserRegisterSchemaErrors(json) ==
    Failing("email", EmailStr(json["email"]))
    \cup Failing("username", LenBetween(json["username"], 3, 100)
                                /\ username_valid_chars(json["username"]))
    \cup Failing("password", IsStr(json["password"]) /\ Len(json["password"]) >= 8
                                /\ password_strength(json["password"]))
    \cup Failing("fullName", LenBetween(json["fullName"], 1, 255))
    \cup Failing("sex", json["sex"] \in SexEnum)
    \cup Failing("phoneNumber", OptionalLen(json["phoneNumber"], 0, 50))
    \cup Failing("addressLine1", LenBetween(json["addressLine1"], 1, 255))
    \cup Failing("addressLine2", OptionalLen(json["addressLine2"], 0, 255))
    \cup Failing("city", LenBetween(json["city"], 1, 100))
    \cup Failing("stateProvinceCode", LenBetween(json["stateProvinceCode"], 1, 10))
    \cup Failing("countryCode", LenBetween(json["countryCode"], 2, 2))
    \cup Failing("postalCode", LenBetween(json["postalCode"], 1, 20))

\* the fields of a body that UserUpdateSchema rejects
UserUpdateSchemaErrors(json) ==
    Failing("fullName", OptionalLen(json["fullName"], 1, 255))
    \cup Failing("sex", json["sex"] \in {Absent, Null} \cup SexEnum)
    \cup Failing("phoneNumber", OptionalLen(json["phoneNumber"], 0, 50))
    \cup Failing("addressLine1", OptionalLen(json["addressLine1"], 1, 255))
    \cup Failing("addressLine2", OptionalLen(json["addressLine2"], 0, 255))
    \cup Failing("city", OptionalLen(json["city"], 1, 100))
    \cup Failing("stateProvinceCode", OptionalLen(json["stateProvinceCode"], 2, 2))
    \cup Failing("countryCode", OptionalLen(json["countryCode"], 2, 2))
    \cup Failing("postalCode", OptionalLen(json["postalCode"], 1, 20))

\* the fields of a body that UserLoginSchema rejects
UserLoginSchemaErrors(json) ==
    Failing("login", IsStr(json["login"]))
    \cup Failing("password", IsStr(json["password"]) /\ Len(json["password"]) >= 1)

\* the fields of a body that PasswordChangeSchema rejects
PasswordChangeSchemaErrors(json) ==
    Failing("currentPassword", IsStr(json["currentPassword"])
                                /\ Len(json["currentPassword"]) >= 1)
    \cup Failing("newPassword", IsStr(json["newPassword"])
                                /\ Len(json["newPassword"]) >= 8
                                /\ newPassword_strength(json["newPassword"]))

\* the whole row dumped, without a response schema
UserResponseSchemaAll(row) == row

\* UserResponseSchema.model_validate(user).model_dump()
UserResponseSchema(row) ==
    [f \in ProfileFields \cup IdentityKeys \cup {"createdAt", "updatedAt"} |-> row[f]]

---------------------------------------------------------------------------
(* The USER table and the password hash *)

\* String(n) columns of table USER and their nullability
ColumnMax ==
    [email |-> 255, username |-> 100, fullName |-> 255, sex |-> 20,
     phoneNumber |-> 50, addressLine1 |-> 255, addressLine2 |-> 255, city |-> 100,
     stateProvinceCode |-> 10, countryCode |-> 2, postalCode |-> 20]
Nullable == {"phoneNumber", "addressLine2"}

\* the row is accepted by the column types (PostgreSQL rejects an over-long value)
ColumnsOk(row) ==
    \A f \in DOMAIN ColumnMax :
        IF row[f] = None THEN f \in Nullable ELSE Len(row[f]) <= ColumnMax[f]

\* email and username declared without unique=True
UniqueOkDropped(table, row) == TRUE

\* unique=True on email and on username
UniqueOk(table, row) ==
    \A i \in DOMAIN table :
        i # row.id => (table[i].email # row.email /\ table[i].username # row.username)

\* bcrypt.hashpw(password, salt): only the first 72 bytes of the password count
BcryptMaxBytes == 72
Truncated(password) == SubSeq(password, 1, Min(Len(password), BcryptMaxBytes))
hashpw(password, salt) == [salt |-> salt, key |-> Truncated(password)]

\* bcrypt.checkpw(password, hashed)
checkpw(password, hashed) == hashpw(password, hashed.salt) = hashed

\* update_password hashing the wrong value: the password already stored
update_password_stale(row, new_password, salt) ==
    [row EXCEPT !.password_hash = hashpw(row.password_hash.key, salt)]

\* User.update_password
update_password(row, new_password, salt) ==
    [row EXCEPT !.password_hash = hashpw(new_password, salt)]

\* AuthService.verify_password(user, plaintext)
verify_password(row, plaintext) == checkpw(plaintext, row.password_hash)

---------------------------------------------------------------------------
(* Bearer tokens (flask_jwt_extended) *)

NoHeader == [present |-> FALSE, sub |-> 0, exp |-> 0, sig |-> FALSE]

\* create_access_token(identity): signed with JWT_SECRET_KEY, expiring after
\* JWT_ACCESS_TOKEN_EXPIRES
create_access_token(identity) ==
    [present |-> TRUE, sub |-> identity, exp |-> now + TokenTTL, sig |-> TRUE]

\* @jwt_required() with a revocation check: a token issued no later than the
\* last change of its user's row is refused
jwt_required_revoking(cred) ==
    IF ~cred.present THEN [ok |-> FALSE, status |-> 401, identity |-> 0,
                           msg |-> "Missing Authorization Header"]
    ELSE IF ~cred.sig THEN [ok |-> FALSE, status |-> 422, identity |-> 0,
                            msg |-> "Signature verification failed"]
    ELSE IF cred.exp <= now THEN [ok |-> FALSE, status |-> 401, identity |-> 0,
                                  msg |-> "Token has expired"]
    ELSE IF /\ cred.sub \in DOMAIN users
            /\ users[cred.sub].updatedAt # users[cred.sub].createdAt
            /\ cred.exp - TokenTTL <= users[cred.sub].updatedAt
         THEN [ok |-> FALSE, status |-> 401, identity |-> 0,
               msg |-> "Token has been revoked"]
    ELSE [ok |-> TRUE, status |-> 200, identity |-> cred.sub, msg |-> ""]

\* @jwt_required() with the callbacks JWTManager(app) installs by default:
\* no header -> 401, a token that does not decode or whose signature is wrong
\* -> 422, an expired token -> 401
jwt_required(cred) ==
    IF ~cred.present THEN [ok |-> FALSE, status |-> 401, identity |-> 0,
                           msg |-> "Missing Authorization Header"]
    ELSE IF ~cred.sig THEN [ok |-> FALSE, status |-> 422, identity |-> 0,
                            msg |-> "Signature verification failed"]
    ELSE IF cred.exp <= now THEN [ok |-> FALSE, status |-> 401, identity |-> 0,
                                  msg |-> "Token has expired"]
    ELSE [ok |-> TRUE, status |-> 200, identity |-> cred.sub, msg |-> ""]

---------------------------------------------------------------------------
(* db.session.commit() of one changed row *)

\* a flush of a column declared without onupdate
FlushedNoOnupdate(old, new) == new

\* a flush that emits its UPDATE whether or not an attribute changed
FlushedAlways(old, new) == [new EXCEPT !.updatedAt = now]

\* the row as flushed: an UPDATE is emitted only when an attribute changed, and
\* onupdate=datetime.utcnow then refreshes updatedAt
Flushed(old, new) == IF new = old THEN old ELSE [new EXCEPT !.updatedAt = now]

\* the commit succeeds unless a column type or a unique constraint rejects the row
CommitOk(table, old, new) ==
    new = old \/ (ColumnsOk(new) /\ UniqueOk(table, new))

\* an UPDATE without its WHERE clause
flush_update_no_where(table, loaded, new) ==
    [i \in DOMAIN table |->
        IF new = loaded THEN table[i]
        ELSE [f \in DOMAIN table[i] |->
                 IF f = "updatedAt" THEN now
                 ELSE IF new[f] # loaded[f] THEN new[f] ELSE table[i][f]]]

\* the UPDATE a session emits for a row it loaded as `loaded` and holds as
\* `new`: it sets the columns whose value changed in the session, on the row
\* of that id as the table has it at commit
flush_update(table, loaded, new) ==
    LET current == table[loaded.id]
        written == [f \in DOMAIN current |->
                       IF new[f] # loaded[f] THEN new[f] ELSE current[f]]
    IN IF new = loaded THEN table
       ELSE [table EXCEPT ![loaded.id] = [written EXCEPT !.updatedAt = now]]

---------------------------------------------------------------------------
(* users blueprint: the three handlers, as functions of the request *)

Reply(status, resp, table, hashed) ==
    [status |-> status, resp |-> resp, table |-> table, hashed |-> hashed]

Msg(m) == [msg |-> m]
Error(e) == [error |-> e]

\* @app.errorhandler(BadRequest) for a description that does not speak of a
\* validation error: the body could not be parsed
handle_bad_request(description) == [status |-> 400, resp |-> Error(description)]

\* @app.errorhandler(ValidationError)
handle_validation_error(errors) ==
    [status |-> 422, resp |-> [error |-> "Validation Error", details |-> errors]]

\* validate(body=Schema): the body is parsed, then checked against the schema
\* (ok: the schema accepts the body; errors: the fields it rejects)
validate_with_422(json, ok, errors) ==
    IF json = Malformed THEN handle_bad_request("Bad Request")
    ELSE IF ~ok THEN handle_validation_error(errors)
    ELSE [status |-> 200, resp |-> <<>>]

\* GET /api/users/me
get_current_user(cred) ==
    LET auth == jwt_required(cred) IN
    IF ~auth.ok THEN Reply(auth.status, Msg(auth.msg), users, FALSE)
    ELSE IF auth.identity \notin DOMAIN users
         THEN Reply(404, Error("Not Found"), users, FALSE)
    ELSE Reply(200, UserResponseSchema(users[auth.identity]), users, FALSE)

\* the assignments with one line copied and not fully renamed:
\* user.addressLine2 = body.addressLine1 if body.addressLine1 is not None else ...
AssignProfileCopied(user, body) ==
    [f \in DOMAIN user |->
        IF f = "addressLine2" /\ body["addressLine1"] # None THEN body["addressLine1"]
        ELSE IF f \in ProfileFields \ {"addressLine2"} /\ body[f] # None
        THEN (IF f = "countryCode" THEN upper(body[f]) ELSE body[f])
        ELSE user[f]]

\* the assignments with the two optional fields taken from the body as they
\* are: user.phoneNumber = body.phoneNumber, user.addressLine2 = body.addressLine2
AssignProfileClearing(user, body) ==
    [f \in DOMAIN user |->
        IF f \in {"phoneNumber", "addressLine2"} THEN body[f]
        ELSE IF f \in ProfileFields /\ body[f] # None
        THEN (IF f = "countryCode" THEN upper(body[f]) ELSE body[f])
        ELSE user[f]]

\* the nine assignments of update_current_user
AssignProfile(user, body) ==
    [f \in DOMAIN user |->
        IF f \in ProfileFields /\ body[f] # None
        THEN (IF f = "countryCode" THEN upper(body[f]) ELSE body[f])
        ELSE user[f]]

\* the order of the nine assignments
AssignOrder ==
    <<"fullName", "sex", "phoneNumber", "addressLine1", "addressLine2", "city",
      "stateProvinceCode", "countryCode", "postalCode">>

\* the session's copy of the row after the first k assignments
AssignedUpTo(user, body, k) ==
    [f \in DOMAIN user |->
        IF \E j \in 1..k : AssignOrder[j] = f THEN AssignProfile(user, body)[f]
        ELSE user[f]]

\* update_current_user copying every key of the request onto the row:
\* for key, value in request.json.items(): setattr(user, key, value)
update_current_user_setattr(cred, json) ==
    LET auth == jwt_required(cred) IN
    IF ~auth.ok THEN Reply(auth.status, Msg(auth.msg), users, FALSE)
    ELSE LET v == validate_with_422(json, UserUpdateSchemaOk(json),
                 UserUpdateSchemaErrors(json)) IN
    IF v.status # 200 THEN Reply(v.status, v.resp, users, FALSE)
    ELSE IF auth.identity \notin DOMAIN users
         THEN Reply(404, Error("Not Found"), users, FALSE)
    ELSE LET user == users[auth.identity]
             new == [f \in DOMAIN user |->
                        IF f \in UpdateKeys \ {"id"} /\ IsStr(json[f])
                        THEN Supplied(json, f) ELSE user[f]]
         IN IF ~CommitOk(users, user, new)
            THEN Reply(500, Error("Internal Server Error"), users, FALSE)
            ELSE LET table == [users EXCEPT ![user.id] = Flushed(user, new)]
                 IN Reply(200, UserResponseSchema(table[user.id]), table, FALSE)

\* PUT /api/users/me
update_current_user(cred, json) ==
    LET auth == jwt_required(cred) IN
    IF ~auth.ok THEN Reply(auth.status, Msg(auth.msg), users, FALSE)
    ELSE LET v == validate_with_422(json, UserUpdateSchemaOk(json),
                 UserUpdateSchemaErrors(json)) IN
    IF v.status # 200 THEN Reply(v.status, v.resp, users, FALSE)
    ELSE IF auth.identity \notin DOMAIN users
         THEN Reply(404, Error("Not Found"), users, FALSE)
    ELSE LET user == users[auth.identity]
             new == AssignProfile(user, UserUpdateSchema(json))
         IN IF ~CommitOk(users, user, new)
            THEN Reply(500, Error("Internal Server Error"), users, FALSE)
            ELSE LET table == [users EXCEPT ![user.id] = Flushed(user, new)]
                 IN Reply(200, UserResponseSchema(table[user.id]), table, FALSE)

\* change_password that answers 403 only after it has stored the new hash
change_password_late_check(cred, json) ==
    LET auth == jwt_required(cred) IN
    IF ~auth.ok THEN Reply(auth.status, Msg(auth.msg), users, FALSE)
    ELSE LET v == validate_with_422(json, PasswordChangeSchemaOk(json),
                 PasswordChangeSchemaErrors(json)) IN
    IF v.status # 200 THEN Reply(v.status, v.resp, users, FALSE)
    ELSE IF auth.identity \notin DOMAIN users
         THEN Reply(404, Error("Not Found"), users, FALSE)
    ELSE LET user == users[auth.identity]
             new == update_password(user, json["newPassword"], nextSalt)
             table == [users EXCEPT ![user.id] = Flushed(user, new)]
         IN IF ~verify_password(user, json["currentPassword"])
            THEN Reply(403, Error("Invalid current password"), table, TRUE)
            ELSE Reply(204, <<>>, table, TRUE)

\* PUT /api/users/me/password
change_password(cred, json) ==
    LET auth == jwt_required(cred) IN
    IF ~auth.ok THEN Reply(auth.status, Msg(auth.msg), users, FALSE)
    ELSE LET v == validate_with_422(json, PasswordChangeSchemaOk(json),
                 PasswordChangeSchemaErrors(json)) IN
    IF v.status # 200 THEN Reply(v.status, v.resp, users, FALSE)
    ELSE IF auth.identity \notin DOMAIN users
         THEN Reply(404, Error("Not Found"), users, FALSE)
    ELSE LET user == users[auth.identity] IN
         IF ~verify_password(user, json["currentPassword"])
         THEN Reply(403, Error("Invalid current password"), users, FALSE)
         ELSE LET new == update_password(user, json["newPassword"], nextSalt)
                  table == [users EXCEPT ![user.id] = Flushed(user, new)]
              IN Reply(204, <<>>, table, TRUE)

\* whether change_password gets as far as AuthService.verify_password
change_password_verifies(cred, json) ==
    /\ jwt_required(cred).ok
    /\ json # Malformed
    /\ PasswordChangeSchemaOk(json)
    /\ cred.sub \in DOMAIN users

---------------------------------------------------------------------------
(* auth service and auth routes: register and login *)

\* the uniqueness checks of register, in order: email, then username
register_check(table, body) ==
    IF \E i \in DOMAIN table : table[i].email = body["email"] THEN "DUPLICATE_EMAIL"
    ELSE IF \E i \in DOMAIN table : table[i].username = body["username"]
         THEN "DUPLICATE_USERNAME"
    ELSE "OK"

\* the User row register builds: hashed password, created-at = updated-at = now
NewUser(id, body, salt) ==
    [f \in ProfileFields \cup {"email", "username"} |-> body[f]]
    @@ [id |-> id, password_hash |-> hashpw(body["password"], salt),
        createdAt |-> now, updatedAt |-> now]

\* POST /api/auth/register, the part before the insert
register_validate(table, json) ==
    LET v == validate_with_422(json, UserRegisterSchemaOk(json),
                 UserRegisterSchemaErrors(json)) IN
    IF v.status # 200 THEN v
    ELSE IF register_check(table, UserRegisterSchema(json)) # "OK"
         THEN [status |-> 400,
               resp |-> Error(register_check(table, UserRegisterSchema(json)))]
    ELSE [status |-> 201, resp |-> <<>>]

\* POST /api/auth/register, the insert and its commit against `table`: a value
\* the column types reject is an unhandled error, a unique-constraint violation
\* is the duplicate error
register_insert(table, json) ==
    LET row == NewUser(nextId, UserRegisterSchema(json), nextSalt) IN
    IF ~ColumnsOk(row) THEN Reply(500, Error("Internal Server Error"), table, TRUE)
    ELSE IF ~UniqueOk(table, row)
         THEN Reply(400, Error(register_check(table, UserRegisterSchema(json))),
                    table, TRUE)
    ELSE Reply(201, UserResponseSchema(row), table @@ (nextId :> row), TRUE)

\* find_user looking at the email only
find_user_by_email(login) == {i \in DOMAIN users : users[i].email = login}

\* the user a login identifier names: its email or its username
find_user(login) ==
    {i \in DOMAIN users : users[i].email = login \/ users[i].username = login}

\* login telling the caller which of the two checks failed
login_telling(json) ==
    LET v == validate_with_422(json, UserLoginSchemaOk(json),
                 UserLoginSchemaErrors(json)) IN
    IF v.status # 200 THEN Reply(v.status, v.resp, users, FALSE)
    ELSE IF find_user(json["login"]) = {}
         THEN Reply(404, Error("User not found"), users, FALSE)
    ELSE LET user == users[CHOOSE i \in find_user(json["login"]) : TRUE] IN
         IF ~verify_password(user, json["password"])
         THEN Reply(401, Error("Invalid password"), users, FALSE)
         ELSE Reply(200, [accessToken |-> create_access_token(user.id),
                          tokenType |-> "bearer", expiresIn |-> TokenTTL,
                          user |-> UserResponseSchema(user)], users, FALSE)

\* POST /api/auth/login
login(json) ==
    LET v == validate_with_422(json, UserLoginSchemaOk(json),
                 UserLoginSchemaErrors(json)) IN
    IF v.status # 200 THEN Reply(v.status, v.resp, users, FALSE)
    ELSE IF find_user(json["login"]) = {}
         THEN Reply(401, Error("Invalid credentials"), users, FALSE)
    ELSE LET user == users[CHOOSE i \in find_user(json["login"]) : TRUE] IN
         IF ~verify_password(user, json["password"])
         THEN Reply(401, Error("Invalid credentials"), users, FALSE)
         ELSE Reply(200, [accessToken |-> create_access_token(user.id),
                          tokenType |-> "bearer", expiresIn |-> TokenTTL,
                          user |-> UserResponseSchema(user)], users, FALSE)

\* POST /api/auth/logout: the token is checked and nothing is recorded
logout(cred) ==
    LET auth == jwt_required(cred) IN
    IF ~auth.ok THEN Reply(auth.status, Msg(auth.msg), users, FALSE)
    ELSE Reply(200, [message |-> "Logged out"], users, FALSE)

---------------------------------------------------------------------------
(* Requests the clients send *)

Pw1 == <<"p","a","s","s","w","0","r","d">>
Pw2 == <<"N","e","w","P","a","s","s","1">>
PwLongA == Rep("a", 71) \o <<"1", "x">>
PwLongB == Rep("a", 71) \o <<"1", "y">>
PwNoDigit == <<"p","a","s","s","w","o","r","d">>
PwNoAlpha == <<"1","2","3","4","5","6","7","8">>
PwShort == <<"p","w","1">>
Pw7 == <<"p","a","s","s","w","0","r">>

EmailA == <<"a","@","x",".","y">>
EmailB == <<"b","@","x",".","y">>
EmailC == <<"c","@","x",".","y">>
Ann == <<"a","n","n">>
Bob == <<"b","o","b">>

RegAnn ==
    [email |-> EmailA, username |-> Ann, password |-> Pw1, fullName |-> <<"A">>,
     sex |-> MALE, phoneNumber |-> Absent, addressLine1 |-> <<"1">>,
     addressLine2 |-> Absent, city |-> <<"C">>, stateProvinceCode |-> <<"T","C">>,
     countryCode |-> <<"U","S">>, postalCode |-> <<"1","2">>]
\* Ann's email under another username
RegSameEmail ==
    [RegAnn EXCEPT !.username = Bob, !.password = PwLongA, !.sex = OTHER_,
                   !.phoneNumber = <<"5">>, !.addressLine2 = Null,
                   !.stateProvinceCode = <<"T">>, !.countryCode = <<"c","a">>]
\* Ann's username under another email
RegSameUsername == [RegAnn EXCEPT !.email = EmailB, !.countryCode = <<"m","x">>]
\* accepted by the schema, but upper() of the country code has three characters
RegEszett == [RegSameEmail EXCEPT !.countryCode = <<"ß","a">>]

ValidRegistrations == {RegAnn, RegSameEmail, RegSameUsername, RegEszett}
InvalidRegistrations ==
    {[RegAnn EXCEPT !.password = PwNoDigit],
     [RegAnn EXCEPT !.password = PwNoAlpha],
     [RegAnn EXCEPT !.username = <<"a"," ","n">>],
     [RegAnn EXCEPT !.countryCode = <<"U","S","A">>],
     [RegAnn EXCEPT !.city = Absent],
     [RegAnn EXCEPT !.email = <<"a","@","x">>]}
Registrations == ValidRegistrations \cup InvalidRegistrations \cup {Malformed}

NoPatch == [k \in UpdateKeys |-> Absent]
\* test_update_profile_partial
PatchPartial == [NoPatch EXCEPT !.fullName = <<"P">>, !.phoneNumber = <<"8">>]
\* test_update_and_get_profile
PatchFull ==
    [NoPatch EXCEPT !.fullName = <<"U">>, !.addressLine1 = <<"4">>,
                    !.addressLine2 = <<"B">>, !.city = <<"N">>,
                    !.stateProvinceCode = <<"N","C">>, !.countryCode = <<"c","a">>,
                    !.postalCode = <<"6","7">>, !.phoneNumber = <<"9">>]
PatchSex == [NoPatch EXCEPT !.sex = FEMALE, !.countryCode = <<"C","a">>]
PatchNulls ==
    [NoPatch EXCEPT !.phoneNumber = Null, !.addressLine2 = Null, !.city = <<"N">>]
\* a patch that also carries the identity keys
PatchIdentity ==
    [PatchPartial EXCEPT !.id = <<"2">>, !.email = EmailC, !.username = Bob]
PatchEszett == [NoPatch EXCEPT !.countryCode = <<"ß","a">>, !.city = <<"N">>]

ValidPatches ==
    {NoPatch, PatchPartial, PatchFull, PatchSex, PatchNulls, PatchIdentity, PatchEszett}
\* each carries valid fields next to the violating one
InvalidPatches ==
    {[PatchPartial EXCEPT !.stateProvinceCode = <<"I","N","V","A","L","I","D">>],
     [PatchPartial EXCEPT !.stateProvinceCode = <<"T">>],
     [PatchPartial EXCEPT !.countryCode = <<"U","S","A">>],
     [PatchPartial EXCEPT !.sex = <<"I","N","V","A","L","I","D">>],
     [PatchFull EXCEPT !.fullName = <<>>],
     [PatchFull EXCEPT !.city = Rep("c", 101)]}
Patches == ValidPatches \cup InvalidPatches \cup {Malformed}

PasswordChanges ==
    {[currentPassword |-> Pw1, newPassword |-> n] : n \in {Pw1, Pw2}}
    \cup {[currentPassword |-> Pw2, newPassword |-> n] : n \in {Pw1, PwLongB}}
    \cup {[currentPassword |-> PwLongB, newPassword |-> n] : n \in {Pw2, PwLongB}}
    \cup {[currentPassword |-> Pw1, newPassword |-> n] :
            n \in {PwNoDigit, PwNoAlpha, PwShort, Absent}}
    \cup {[currentPassword |-> c, newPassword |-> Pw2] : c \in {<<>>, Absent}}
    \cup {Malformed}

Logins ==
    {[login |-> l, password |-> Pw1] : l \in {EmailA, Ann, EmailC}}
    \cup {[login |-> Ann, password |-> Pw2]}
    \cup {[login |-> l, password |-> PwLongB] : l \in {EmailA, Bob}}
    \cup {[login |-> Absent, password |-> Pw1], [login |-> EmailA, password |-> Absent]}
    \cup {Malformed}

\* a token whose payload was altered after signing, or that was signed with
\* another key
Tampered ==
    IF held.present THEN [held EXCEPT !.sig = FALSE]
    ELSE [present |-> TRUE, sub |-> 1, exp |-> now + TokenTTL, sig |-> FALSE]

\* a token that verifies, of a user whose row has since been removed from the
\* table: User.query.get_or_404 finds nothing for its subject
Orphaned == [present |-> TRUE, sub |-> 0, exp |-> now + TokenTTL, sig |-> TRUE]

\* what a request can carry as Authorization: nothing, the token the client
\* holds, or a tampered token
Credentials == {NoHeader, held, Tampered}

\* the bodies sent along with something else than the client's token
StrangerPatches == {PatchPartial, [PatchPartial EXCEPT !.stateProvinceCode = <<"T">>]}
StrangerPasswordChanges ==
    {[currentPassword |-> Pw1, newPassword |-> Pw2],
     [currentPassword |-> Pw1, newPassword |-> PwShort]}

---------------------------------------------------------------------------
(* The state machine *)

Workers == 1..MaxWorkers

\* database/connection.py as the module is imported: _engine = None and
\* _SessionLocal = None (0 stands for None, an engine is a positive number, a
\* session factory is the number of the engine it is bound to).  created,
\* disposed, made, handed and overlap record what has happened: the engines
\* created and disposed so far, the engines get_engine has created and the
\* engines handed to callers since close_engine was last called, and whether
\* two calls have ever been in progress together, twice: an engine has been
\* disposed a second time.
NoEngine ==
    [engine |-> 0, SessionLocal |-> 0, created |-> 0, disposed |-> {},
     made |-> {}, handed |-> {}, overlap |-> FALSE, twice |-> FALSE]

\* a worker that is in no call of the module
IdleCall ==
    [op |-> "idle", pc |-> "idle", max_retries |-> 0, retry_delay |-> 0,
     attempt |-> 0, attempts |-> 0, sleeps |-> 0, slept |-> 0,
     eng |-> 0, factory |-> 0, session |-> 0, warm |-> FALSE,
     body |-> "none", exc |-> "none", log |-> <<>>]
Idle == [pending |-> FALSE, json |-> <<>>, seen |-> <<>>, cred |-> NoHeader]

Served(op, cred, json, reply) ==
    [op |-> op, cred |-> cred, json |-> json, status |-> reply.status,
     resp |-> reply.resp, before |-> users, seen |-> users, at |-> now]

Init ==
    /\ users = <<>>
    /\ nextId = 1
    /\ nextSalt = 1
    /\ now = 0
    /\ held = NoHeader
    /\ reqs = [w \in Workers |-> Idle]
    /\ served = 0
    /\ last = [op |-> "none", cred |-> NoHeader, json |-> <<>>, status |-> 0,
               resp |-> <<>>, before |-> <<>>, seen |-> <<>>, at |-> 0]
    /\ conn = NoEngine
    /\ calls = [w \in Workers |-> IdleCall]

\* time passes; the clock is read for the first time by the first request
Tick ==
    /\ now < MaxTime
    /\ served > 0
    /\ now' = now + 1
    /\ UNCHANGED <<users, nextId, nextSalt, held, reqs, served, last, conn, calls>>

\* POST /api/auth/register, handled without interleaving
Register ==
    \E json \in Registrations :
        LET v == register_validate(users, json) IN
        /\ served < MaxRequests
        /\ served' = served + 1
        /\ IF v.status # 201
           THEN /\ last' = Served("register", NoHeader, json,
                                  Reply(v.status, v.resp, users, FALSE))
                /\ UNCHANGED <<users, nextId, nextSalt>>
           ELSE LET reply == register_insert(users, json) IN
                /\ users' = reply.table
                /\ nextId' = nextId + 1
                /\ nextSalt' = nextSalt + 1
                /\ last' = Served("register", NoHeader, json, reply)
        /\ UNCHANGED <<now, held, reqs, conn, calls>>

\* POST /api/auth/login; the client keeps the token it is given
Login ==
    \E json \in Logins :
        LET reply == login(json) IN
        /\ served < MaxRequests
        /\ served' = served + 1
        /\ last' = Served("login", NoHeader, json, reply)
        /\ held' = IF reply.status = 200 THEN reply.resp.accessToken ELSE held
        /\ UNCHANGED <<users, nextId, nextSalt, now, reqs, conn, calls>>

\* GET /api/users/me
GetCurrentUser ==
    \E cred \in Credentials :
        /\ served < MaxRequests
        /\ served' = served + 1
        /\ last' = Served("get_current_user", cred, <<>>, get_current_user(cred))
        /\ UNCHANGED <<users, nextId, nextSalt, now, held, reqs, conn, calls>>

\* PUT /api/users/me
UpdateCurrentUser ==
    \E cred \in Credentials, json \in Patches :
        LET reply == update_current_user(cred, json) IN
        /\ served < MaxRequests
        /\ cred = held \/ json \in StrangerPatches
        /\ served' = served + 1
        /\ users' = reply.table
        /\ last' = Served("update_current_user", cred, json, reply)
        /\ UNCHANGED <<nextId, nextSalt, now, held, reqs, conn, calls>>

\* PUT /api/users/me/password
ChangePassword ==
    \E cred \in Credentials \cup {Orphaned}, json \in PasswordChanges :
        LET reply == change_password(cred, json) IN
        /\ served < MaxRequests
        /\ cred = held \/ json \in StrangerPasswordChanges
        /\ served' = served + 1
        /\ users' = reply.table
        /\ nextSalt' = IF reply.hashed THEN nextSalt + 1 ELSE nextSalt
        /\ last' = Served("change_password", cred, json, reply)
        /\ UNCHANGED <<nextId, now, held, reqs, conn, calls>>

\* POST /api/auth/logout; the client may still send the token afterwards
Logout ==
    \E cred \in Credentials :
        /\ served < MaxRequests
        /\ served' = served + 1
        /\ last' = Served("logout", cred, <<>>, logout(cred))
        /\ UNCHANGED <<users, nextId, nextSalt, now, held, reqs, conn, calls>>

Next ==
    \/ Tick \/ Register \/ Login \/ Logout
    \/ GetCurrentUser \/ UpdateCurrentUser \/ ChangePassword

Spec == Init /\ [][Next]_vars

---------------------------------------------------------------------------
(* Registrations handled by concurrent workers: each worker validates the
   request and runs the uniqueness checks, and commits its insert in a later
   step, so that another worker's registration can come in between *)

\* worker w takes a registration up to its insert
RegisterBegin ==
    \E w \in Workers, json \in Registrations :
        LET v == register_validate(users, json) IN
        /\ served < MaxRequests
        /\ ~reqs[w].pending
        /\ served' = served + 1
        /\ IF v.status # 201
           THEN /\ last' = Served("register", NoHeader, json,
                                  Reply(v.status, v.resp, users, FALSE))
                /\ UNCHANGED reqs
           ELSE /\ reqs' = [reqs EXCEPT ![w] = [pending |-> TRUE, json |-> json,
                                                 seen |-> users, cred |-> NoHeader]]
                /\ UNCHANGED last
        /\ UNCHANGED <<users, nextId, nextSalt, now, held, conn, calls>>

\* worker w commits its insert against the table as it is now
RegisterCommit ==
    \E w \in Workers :
        LET reply == register_insert(users, reqs[w].json) IN
        /\ reqs[w].pending
        /\ reqs' = [reqs EXCEPT ![w] = Idle]
        /\ users' = reply.table
        /\ nextId' = nextId + 1
        /\ nextSalt' = nextSalt + 1
        /\ last' = [Served("register", NoHeader, reqs[w].json, reply)
                        EXCEPT !.seen = reqs[w].seen]
        /\ UNCHANGED <<now, held, served, conn, calls>>

NextConc ==
    RegisterBegin \/ RegisterCommit \/ Login \/ UpdateCurrentUser

SpecConc == Init /\ [][NextConc]_vars

---------------------------------------------------------------------------
(* Profile updates handled by concurrent workers, each in a session of its
   own: the handler loads the row, assigns the nine attributes on the
   session's copy, and commits; the client may go away before the commit.
   The run starts with two registered users, the first of them logged in. *)

\* a form that sends the name it was loaded with next to a new phone number
PatchKeepName == [NoPatch EXCEPT !.fullName = <<"A">>, !.phoneNumber = <<"8">>]
\* another client of the same user changes both
PatchRename == [NoPatch EXCEPT !.fullName = <<"U">>, !.phoneNumber = <<"9">>]
TxnPatches ==
    {PatchKeepName, PatchPartial, PatchRename,
     [PatchPartial EXCEPT !.stateProvinceCode = <<"T">>]}

InitTxn ==
    /\ now = 0
    /\ users = (1 :> NewUser(1, UserRegisterSchema(RegSameEmail), 1))
               @@ (2 :> NewUser(2, UserRegisterSchema(RegSameUsername), 2))
    /\ nextId = 3
    /\ nextSalt = 3
    /\ held = create_access_token(1)
    /\ reqs = [w \in Workers |-> Idle]
    /\ served = 0
    /\ last = [op |-> "none", cred |-> NoHeader, json |-> <<>>, status |-> 0,
               resp |-> <<>>, before |-> <<>>, seen |-> <<>>, at |-> 0]
    /\ conn = NoEngine
    /\ calls = [w \in Workers |-> IdleCall]

\* worker w takes PUT /api/users/me up to User.query.get_or_404
UpdateBegin ==
    \E w \in Workers, cred \in Credentials, json \in TxnPatches :
        LET refusal == update_current_user(cred, json) IN
        /\ served < MaxRequests
        /\ ~reqs[w].pending
        /\ cred = held \/ json \in StrangerPatches
        /\ served' = served + 1
        /\ IF refusal.status \in {400, 401, 422, 404}
           THEN /\ last' = Served("update_current_user", cred, json, refusal)
                /\ UNCHANGED reqs
           ELSE /\ reqs' = [reqs EXCEPT ![w] = [pending |-> TRUE, json |-> json,
                                                 seen |-> users, cred |-> cred]]
                /\ UNCHANGED last
        /\ UNCHANGED <<users, nextId, nextSalt, now, held, conn, calls>>

\* worker w has made its nine assignments and commits
UpdateCommit ==
    \E w \in Workers :
        /\ reqs[w].pending
        /\ LET loaded == reqs[w].seen[reqs[w].cred.sub]
               new == AssignProfile(loaded, UserUpdateSchema(reqs[w].json))
               table == flush_update(users, loaded, new)
               reply == IF new # loaded /\ ~ColumnsOk(table[loaded.id])
                        THEN Reply(500, Error("Internal Server Error"), users, FALSE)
                        ELSE Reply(200, UserResponseSchema(table[loaded.id]), table, FALSE)
           IN /\ users' = reply.table
              /\ last' = [Served("update_current_user", reqs[w].cred, reqs[w].json, reply)
                             EXCEPT !.seen = reqs[w].seen]
        /\ reqs' = [reqs EXCEPT ![w] = Idle]
        /\ UNCHANGED <<nextId, nextSalt, now, held, served, conn, calls>>

\* the client of worker w goes away after k of the nine assignments: the
\* request is abandoned and its session is rolled back
UpdateAbandon ==
    \E w \in Workers, k \in 0..Len(AssignOrder) :
        /\ reqs[w].pending
        /\ LET loaded == reqs[w].seen[reqs[w].cred.sub]
               session == AssignedUpTo(loaded, UserUpdateSchema(reqs[w].json), k)
           IN last' = [Served("abandoned", reqs[w].cred, reqs[w].json,
                              Reply(0, UserResponseSchema(session), users, FALSE))
                          EXCEPT !.seen = reqs[w].seen]
        /\ reqs' = [reqs EXCEPT ![w] = Idle]
        /\ UNCHANGED <<users, nextId, nextSalt, now, held, served, conn, calls>>

NextTxn ==
    \/ UpdateBegin \/ UpdateCommit \/ UpdateAbandon
    \/ Login \/ GetCurrentUser \/ ChangePassword

SpecTxn == InitTxn /\ [][NextTxn]_vars

---------------------------------------------------------------------------
(* Password changes in progress together: change_password reads the row,
   checks the current password against it, and commits later.  The run starts
   as for the profile updates in progress together. *)

\* worker w takes PUT /api/users/me/password up to the check of the current
\* password against the row it has loaded
PasswordChangeBegin ==
    \E w \in Workers, cred \in Credentials \cup {Orphaned}, json \in PasswordChanges :
        LET reply == change_password(cred, json) IN
        /\ served < MaxRequests
        /\ ~reqs[w].pending
        /\ cred = held \/ json \in StrangerPasswordChanges
        /\ served' = served + 1
        /\ IF reply.status # 204
           THEN /\ last' = Served("change_password", cred, json,
                                  Reply(reply.status, reply.resp, users, FALSE))
                /\ UNCHANGED reqs
           ELSE /\ reqs' = [reqs EXCEPT ![w] = [pending |-> TRUE, json |-> json,
                                                 seen |-> users, cred |-> cred]]
                /\ UNCHANGED last
        /\ UNCHANGED <<users, nextId, nextSalt, now, held, conn, calls>>

\* worker w calls user.update_password and commits: the UPDATE sets the new
\* hash on the row of the user's id, whatever hash the row holds by then
PasswordChangeCommit ==
    \E w \in Workers :
        /\ reqs[w].pending
        /\ LET loaded == reqs[w].seen[reqs[w].cred.sub]
               new == update_password(loaded, reqs[w].json["newPassword"], nextSalt)
               table == flush_update(users, loaded, new)
           IN /\ users' = table
              /\ last' = [Served("change_password", reqs[w].cred, reqs[w].json,
                                 Reply(204, <<>>, table, TRUE))
                             EXCEPT !.seen = reqs[w].seen]
        /\ nextSalt' = nextSalt + 1
        /\ reqs' = [reqs EXCEPT ![w] = Idle]
        /\ UNCHANGED <<nextId, now, held, served, conn, calls>>

NextPassword == PasswordChangeBegin \/ PasswordChangeCommit \/ Login

SpecPassword == InitTxn /\ [][NextPassword]_vars

---------------------------------------------------------------------------
(* The application built by create_app: a request reaches a handler only
   through a blueprint that create_app has registered *)

\* app.register_blueprint(...) calls of create_app
RegisteredBlueprints == {"auth"}

\* the blueprint that declares the route of a handler
BlueprintOf(op) == IF op \in {"register", "login", "logout"} THEN "auth" ELSE "users"

\* Flask's routing: a URL that no registered rule matches is answered 404
dispatch(op, reply) ==
    IF BlueprintOf(op) \in RegisteredBlueprints THEN reply
    ELSE Reply(404, [html |-> "404 Not Found"], users, FALSE)

\* GET /api/users/me sent to the application
AppGetCurrentUser ==
    \E cred \in Credentials :
        /\ served < MaxRequests
        /\ served' = served + 1
        /\ last' = Served("get_current_user", cred, <<>>,
                          dispatch("get_current_user", get_current_user(cred)))
        /\ UNCHANGED <<users, nextId, nextSalt, now, held, reqs, conn, calls>>

\* PUT /api/users/me sent to the application
AppUpdateCurrentUser ==
    \E cred \in Credentials, json \in Patches :
        LET reply == dispatch("update_current_user", update_current_user(cred, json)) IN
        /\ served < MaxRequests
        /\ cred = held \/ json \in StrangerPatches
        /\ served' = served + 1
        /\ users' = reply.table
        /\ last' = Served("update_current_user", cred, json, reply)
        /\ UNCHANGED <<nextId, nextSalt, now, held, reqs, conn, calls>>

NextApp ==
    \/ Tick \/ Register \/ Login \/ Logout
    \/ AppGetCurrentUser \/ AppUpdateCurrentUser

SpecApp == Init /\ [][NextApp]_vars

---------------------------------------------------------------------------
(* A client that sends a user's stored profile back as a patch *)

\* the profile fields of a registration body as the body of a profile update
AsPatch(json) == [k \in UpdateKeys |-> IF k \in ProfileFields THEN json[k] ELSE Absent]

\* the profile of a stored row as the body of a profile update; a null column
\* is sent as JSON null
OwnProfile(row) ==
    [k \in UpdateKeys |->
        IF k \notin ProfileFields THEN Absent
        ELSE IF row[k] = None THEN Null
        ELSE row[k]]

\* PUT /api/users/me with the profile the logged-in user has stored
ResubmitProfile ==
    /\ served < MaxRequests
    /\ held.present /\ held.sub \in DOMAIN users
    /\ LET json == OwnProfile(users[held.sub])
           reply == update_current_user(held, json)
       IN /\ served' = served + 1
          /\ users' = reply.table
          /\ last' = Served("update_current_user", held, json, reply)
    /\ UNCHANGED <<nextId, nextSalt, now, held, reqs, conn, calls>>

NextResubmit == Tick \/ Register \/ Login \/ ResubmitProfile

SpecResubmit == Init /\ [][NextResubmit]_vars

---------------------------------------------------------------------------
(* create_app: the start of the application *)

\* the keys of the dictionary `config` of config.py
ConfigKeys ==
    {"development-local", "development-cloud", "testing", "production", "default"}

Unset == "<unset>"

\* the configuration names create_app is started with, Unset for no argument,
\* and the values FLASK_ENV is tried with, Unset for no such variable
ConfigNamesTried == ConfigKeys \cup {"development", Unset}
FlaskEnvsTried == {Unset, "development", "testing", "development-cloud"}

\* `if config_name is None:` of create_app
config_name_of(config_name, env) ==
    IF config_name # Unset THEN config_name
    ELSE IF env.AWS_LAMBDA_FUNCTION_NAME THEN "production"
    ELSE IF env.FLASK_ENV = Unset THEN "development-local"
    ELSE env.FLASK_ENV

\* create_app(config_name) under environment env, up to the registration of
\* the error handlers: config[config_name] raises KeyError for a name that is
\* no key; db.create_all() runs under `if config_name == 'development'`, and
\* what it raises is logged as a warning
create_app(config_name, env) ==
    LET name == config_name_of(config_name, env) IN
    IF name \notin ConfigKeys
    THEN [config |-> name, started |-> FALSE, exc |-> "KeyError",
          create_all |-> FALSE, tables |-> FALSE]
    ELSE [config |-> name, started |-> TRUE, exc |-> "none",
          create_all |-> name = "development",
          tables |-> name = "development" /\ ~env.create_all_fails]

\* the application is started
CreateApp ==
    \E config_name \in ConfigNamesTried, lambda \in BOOLEAN,
       flask_env \in FlaskEnvsTried, fails \in BOOLEAN :
        LET env == [AWS_LAMBDA_FUNCTION_NAME |-> lambda, FLASK_ENV |-> flask_env,
                    create_all_fails |-> fails]
        IN /\ served < MaxRequests
           /\ served' = served + 1
           /\ last' = Served("create_app", NoHeader,
                             [config_name |-> config_name, env |-> env],
                             Reply(0, create_app(config_name, env), users, FALSE))
           /\ UNCHANGED <<users, nextId, nextSalt, now, held, reqs, conn, calls>>

NextStart == CreateApp

SpecStart == Init /\ [][NextStart]_vars

---------------------------------------------------------------------------
(* services/user_service.py, called by code that holds a User *)

\* the keys update_user_profile looks for in profile_data; each is also the
\* name of the attribute of the User object it assigns to
ServiceKeys ==
    {"full_name", "sex", "address_line_1", "address_line_2", "city",
     "state_province_code", "country_code", "postal_code", "phone_number"}

\* the mapped attribute of User whose column has the name key: the stored
\* field a key of profile_data stands for
StoredField(key) ==
    CASE key = "full_name" -> "fullName"
      [] key = "address_line_1" -> "addressLine1"
      [] key = "address_line_2" -> "addressLine2"
      [] key = "state_province_code" -> "stateProvinceCode"
      [] key = "country_code" -> "countryCode"
      [] key = "postal_code" -> "postalCode"
      [] key = "phone_number" -> "phoneNumber"
      [] OTHER -> key

\* the value update_user_profile assigns for key
ServiceValue(profile_data, key) ==
    IF key = "country_code" THEN upper(profile_data[key]) ELSE profile_data[key]

\* an update_user_profile that assigns to the mapped attribute of each key
update_user_profile_mapped(user, profile_data) ==
    [f \in DOMAIN user |->
        IF \E key \in ServiceKeys : StoredField(key) = f /\ profile_data[key] # Absent
        THEN ServiceValue(profile_data,
                          CHOOSE key \in ServiceKeys : StoredField(key) = f)
        ELSE user[f]]

\* update_user_profile, as far as the session sees it: `user.<key> = value`
\* changes the row only where <key> is a mapped attribute of User (sex and
\* city); under any other name it sets a plain attribute of the Python object
update_user_profile(user, profile_data) ==
    [f \in DOMAIN user |->
        IF f \in ServiceKeys /\ profile_data[f] # Absent
        THEN ServiceValue(profile_data, f)
        ELSE user[f]]

NoData == [key \in ServiceKeys |-> Absent]
DataName == [NoData EXCEPT !.full_name = <<"U">>]
DataSexCity == [NoData EXCEPT !.sex = FEMALE, !.city = <<"N">>]
DataCountry == [NoData EXCEPT !.country_code = <<"c","a">>, !.postal_code = <<"6","7">>]
DataFull ==
    [full_name |-> <<"U">>, sex |-> OTHER_, address_line_1 |-> <<"4">>,
     address_line_2 |-> <<"B">>, city |-> <<"N">>, state_province_code |-> <<"N","C">>,
     country_code |-> <<"m","x">>, postal_code |-> <<"6","7">>, phone_number |-> <<"9">>]
ProfileDatas == {NoData, DataName, DataSexCity, DataCountry, DataFull}

\* update_user_profile(user, profile_data) on a stored user, with its commit
UpdateUserProfile ==
    \E id \in DOMAIN users, profile_data \in ProfileDatas :
        LET user == users[id]
            new == update_user_profile(user, profile_data)
            table == [users EXCEPT ![id] = Flushed(user, new)]
        IN /\ served < MaxRequests
           /\ CommitOk(users, user, new)
           /\ served' = served + 1
           /\ users' = table
           /\ last' = Served("update_user_profile", NoHeader, profile_data,
                             Reply(0, table[id], table, FALSE))
           /\ UNCHANGED <<nextId, nextSalt, now, held, reqs, conn, calls>>

NextService == Tick \/ Register \/ UpdateUserProfile

SpecService == Init /\ [][NextService]_vars

---------------------------------------------------------------------------
(* database/connection.py: the engine and the session factory kept in module
   globals, by steps of the workers that run its functions.  A step is one
   read or one write of a global, or one call that leaves the module. *)

appVars == <<users, nextId, nextSalt, now, held, reqs, last>>

\* create_db_engine(max_retries=3, retry_delay=5)
DefaultMaxRetries == 3
DefaultRetryDelay == 5
\* the settings direct calls of create_db_engine are made with
MaxRetriesTried == {0 - 1, 0, 1, 2, DefaultMaxRetries}
RetryDelaysTried == {0, DefaultRetryDelay}

\* what one pass of the try block can end in: it completes, create_engine or
\* the test connection raises OperationalError, or something else is raised
AttemptOutcomes == {"ok", "OperationalError", "Exception"}
\* what the body of `with get_db() as db:` can end in: it completes, it raises
\* an Exception, or it raises a BaseException that is no Exception
\* (SystemExit, KeyboardInterrupt, GeneratorExit)
BodyOutcomes == {"normal", "Exception", "BaseException"}

Busy(w) == calls[w].pc \notin {"idle", "done"}

\* a retry loop that sleeps after every failed attempt, the last included
RetriesLeftAlways(attempt, max_retries) == TRUE

\* `if attempt < max_retries - 1`
RetriesLeft(attempt, max_retries) == attempt < max_retries - 1

\* the factory sessionmaker(bind=eng) makes, written as the number of the
\* engine it is bound to, and as -1 when get_engine() gave it None
BoundTo(eng) == IF eng = 0 THEN 0 - 1 ELSE eng

\* the function a frame goes on with when the function it called returns
AfterEngine(op) == IF op = "get_engine" THEN "done" ELSE "set_factory"
AfterFactory(op) == IF op = "get_session_factory" THEN "done" ELSE "make_session"
AfterSession(op) == IF op = "get_session" THEN "done" ELSE "body"

\* the first step of each function of the module
Entry(op) ==
    CASE op = "get_engine" -> "read_engine"
      [] op \in {"get_session_factory", "get_session", "get_db"} -> "read_factory"
      [] op = "close_engine" -> "close_check"
      [] op = "is_lambda_warm" -> "warm"

\* worker w raises exc out of the call it is in
Raise(w, exc) == [calls EXCEPT ![w].exc = exc, ![w].pc = "done"]

\* a worker calls create_db_engine directly; the function shares nothing with
\* other calls, so its runs are taken one at a time
CallCreateDbEngine ==
    \E w \in Workers, m \in MaxRetriesTried, d \in RetryDelaysTried :
        /\ served < MaxRequests
        /\ \A v \in Workers : calls[v].pc = "idle"
        /\ served' = served + 1
        /\ calls' = [calls EXCEPT ![w] =
                        [IdleCall EXCEPT !.op = "create_db_engine", !.pc = "credentials",
                                         !.max_retries = m, !.retry_delay = d]]
        /\ UNCHANGED <<appVars, conn>>

\* a worker calls one of the other functions of the module; the result of a
\* call that has ended is taken before the next call is made
Call ==
    \E w \in Workers,
       op \in {"get_engine", "get_session_factory", "get_session", "get_db",
               "close_engine", "is_lambda_warm"} :
        /\ served < MaxRequests
        /\ calls[w].pc = "idle"
        /\ \A v \in Workers : calls[v].pc # "done"
        /\ served' = served + 1
        /\ calls' = [calls EXCEPT ![w] = [IdleCall EXCEPT !.op = op, !.pc = Entry(op)]]
        /\ conn' = [conn EXCEPT
                       !.overlap = @ \/ \E v \in Workers \ {w} : Busy(v),
                       !.made = IF op = "close_engine" THEN {} ELSE @,
                       !.handed = IF op = "close_engine" THEN {} ELSE @]
        /\ UNCHANGED appVars

\* a worker enters `with get_db() as db:` while no other call of the module
\* is in progress; the session is the worker's own
CallGetDb ==
    \E w \in Workers :
        /\ served < MaxRequests
        /\ \A v \in Workers : calls[v].pc = "idle"
        /\ served' = served + 1
        /\ calls' = [calls EXCEPT ![w] =
                        [IdleCall EXCEPT !.op = "get_db", !.pc = Entry("get_db")]]
        /\ UNCHANGED <<appVars, conn>>

\* get_engine: `if _engine is None`
ReadEngine ==
    \E w \in Workers :
        /\ calls[w].pc = "read_engine"
        /\ calls' = [calls EXCEPT ![w].pc = IF conn.engine = 0 THEN "create"
                                            ELSE "return_engine"]
        /\ UNCHANGED <<appVars, served, conn>>

\* get_engine: the call create_db_engine(), taken whole: it reads and writes
\* no global, and it ends with a new engine or with an exception
CreateDbEngine ==
    \E w \in Workers, outcome \in AttemptOutcomes :
        /\ calls[w].pc = "create"
        /\ IF outcome = "ok"
           THEN /\ calls' = [calls EXCEPT ![w].eng = conn.created + 1,
                                          ![w].pc = "set_engine"]
                /\ conn' = [conn EXCEPT !.created = @ + 1,
                                        !.made = @ \cup {conn.created + 1}]
           ELSE /\ calls' = Raise(w, outcome)
                /\ UNCHANGED conn
        /\ UNCHANGED <<appVars, served>>

\* create_db_engine: creds = get_db_credentials(), which raises KeyError when
\* a DB_* variable is not set
GetDbCredentials ==
    \E w \in Workers, found \in BOOLEAN :
        /\ calls[w].pc = "credentials"
        /\ calls' = IF found THEN [calls EXCEPT ![w].pc = "attempt"]
                    ELSE Raise(w, "KeyError")
        /\ UNCHANGED <<appVars, served, conn>>

\* create_db_engine: one pass of `for attempt in range(max_retries)`
Attempt ==
    \E w \in Workers, outcome \in AttemptOutcomes :
        LET f == calls[w] IN
        /\ f.pc = "attempt"
        /\ f.attempt < f.max_retries
        /\ IF outcome = "ok"
           THEN /\ calls' = [calls EXCEPT ![w].attempts = @ + 1,
                                          ![w].eng = conn.created + 1,
                                          ![w].pc = "done"]
                /\ conn' = [conn EXCEPT !.created = @ + 1]
           ELSE /\ calls' =
                      IF outcome = "OperationalError"
                            /\ RetriesLeft(f.attempt, f.max_retries)
                      THEN [calls EXCEPT ![w].attempts = @ + 1, ![w].pc = "sleep"]
                      ELSE [calls EXCEPT ![w].attempts = @ + 1, ![w].exc = outcome,
                                         ![w].pc = "done"]
                /\ UNCHANGED conn
        /\ UNCHANGED <<appVars, served>>

\* create_db_engine: the loop has nothing to run, or nothing more:
\* raise Exception("Failed to create database engine")
LoopExhausted ==
    \E w \in Workers :
        /\ calls[w].pc = "attempt"
        /\ calls[w].attempt >= calls[w].max_retries
        /\ calls' = Raise(w, "Exception")
        /\ UNCHANGED <<appVars, served, conn>>

\* create_db_engine: time.sleep(retry_delay), then the next pass
Sleep ==
    \E w \in Workers :
        /\ calls[w].pc = "sleep"
        /\ calls' = [calls EXCEPT ![w].sleeps = @ + 1,
                                  ![w].slept = @ + calls[w].retry_delay,
                                  ![w].attempt = @ + 1,
                                  ![w].pc = "attempt"]
        /\ UNCHANGED <<appVars, served, conn>>

\* get_engine: _engine = create_db_engine()
SetEngine ==
    \E w \in Workers :
        /\ calls[w].pc = "set_engine"
        /\ conn' = [conn EXCEPT !.engine = calls[w].eng]
        /\ calls' = [calls EXCEPT ![w].pc = "return_engine"]
        /\ UNCHANGED <<appVars, served>>

\* get_engine: return _engine
ReturnEngine ==
    \E w \in Workers :
        /\ calls[w].pc = "return_engine"
        /\ calls' = [calls EXCEPT ![w].eng = conn.engine,
                                  ![w].pc = AfterEngine(calls[w].op)]
        /\ conn' = [conn EXCEPT !.handed = @ \cup {conn.engine}]
        /\ UNCHANGED <<appVars, served>>

\* get_session_factory: `if _SessionLocal is None`
ReadFactory ==
    \E w \in Workers :
        /\ calls[w].pc = "read_factory"
        /\ calls' = [calls EXCEPT ![w].pc = IF conn.SessionLocal = 0 THEN "read_engine"
                                            ELSE "return_factory"]
        /\ UNCHANGED <<appVars, served, conn>>

\* get_session_factory: _SessionLocal = sessionmaker(..., bind=get_engine())
SetFactory ==
    \E w \in Workers :
        /\ calls[w].pc = "set_factory"
        /\ conn' = [conn EXCEPT !.SessionLocal = BoundTo(calls[w].eng)]
        /\ calls' = [calls EXCEPT ![w].pc = "return_factory"]
        /\ UNCHANGED <<appVars, served>>

\* get_session_factory: return _SessionLocal
ReturnFactory ==
    \E w \in Workers :
        /\ calls[w].pc = "return_factory"
        /\ calls' = [calls EXCEPT ![w].factory = conn.SessionLocal,
                                  ![w].pc = AfterFactory(calls[w].op)]
        /\ UNCHANGED <<appVars, served, conn>>

\* get_session: return SessionLocal(); None is not callable
MakeSession ==
    \E w \in Workers :
        /\ calls[w].pc = "make_session"
        /\ IF calls[w].factory = 0
           THEN /\ calls' = Raise(w, "TypeError")
                /\ UNCHANGED conn
           ELSE /\ calls' = [calls EXCEPT ![w].session = calls[w].factory,
                                          ![w].pc = AfterSession(calls[w].op)]
                /\ conn' = [conn EXCEPT !.handed = @ \cup {calls[w].factory}]
        /\ UNCHANGED <<appVars, served>>

\* a get_db that has no except clause
OnBodyEndNoExcept(outcome) == IF outcome = "normal" THEN "commit" ELSE "close"

\* get_db: where the generator goes on when the body has ended: after the
\* yield, in `except Exception`, or in `finally` alone
OnBodyEnd(outcome) ==
    CASE outcome = "normal" -> "commit"
      [] outcome = "Exception" -> "rollback"
      [] outcome = "BaseException" -> "close"

\* get_db: yield db, the body of the with statement runs
Body ==
    \E w \in Workers, outcome \in BodyOutcomes :
        /\ calls[w].pc = "body"
        /\ calls' = [calls EXCEPT
                        ![w].body = outcome,
                        ![w].exc = IF outcome = "normal" THEN "none" ELSE outcome,
                        ![w].pc = OnBodyEnd(outcome)]
        /\ UNCHANGED <<appVars, served, conn>>

\* get_db: db.commit(), which can raise
Commit ==
    \E w \in Workers, ok \in BOOLEAN :
        /\ calls[w].pc = "commit"
        /\ calls' = IF ok
                    THEN [calls EXCEPT ![w].log = Append(@, "commit"), ![w].pc = "close"]
                    ELSE [calls EXCEPT ![w].exc = "CommitError", ![w].pc = "rollback"]
        /\ UNCHANGED <<appVars, served, conn>>

\* get_db: except Exception: db.rollback(); raise.  A rollback that raises
\* leaves through finally with its own exception
Rollback ==
    \E w \in Workers, ok \in BOOLEAN :
        /\ calls[w].pc = "rollback"
        /\ calls' = IF ok
                    THEN [calls EXCEPT ![w].log = Append(@, "rollback"), ![w].pc = "close"]
                    ELSE [calls EXCEPT ![w].exc = "RollbackError", ![w].pc = "close"]
        /\ UNCHANGED <<appVars, served, conn>>

\* get_db: finally: db.close()
Close ==
    \E w \in Workers :
        /\ calls[w].pc = "close"
        /\ calls' = [calls EXCEPT ![w].log = Append(@, "close"), ![w].pc = "done"]
        /\ UNCHANGED <<appVars, served, conn>>

\* close_engine: `if _engine:`
CloseCheck ==
    \E w \in Workers :
        /\ calls[w].pc = "close_check"
        /\ calls' = [calls EXCEPT ![w].pc = IF conn.engine # 0 THEN "dispose"
                                            ELSE "clear_factory"]
        /\ UNCHANGED <<appVars, served, conn>>

\* close_engine: _engine.dispose(); None has no dispose
Dispose ==
    \E w \in Workers :
        /\ calls[w].pc = "dispose"
        /\ IF conn.engine = 0
           THEN /\ calls' = Raise(w, "AttributeError")
                /\ UNCHANGED conn
           ELSE /\ calls' = [calls EXCEPT ![w].pc = "clear_engine"]
                /\ conn' = [conn EXCEPT !.disposed = @ \cup {conn.engine},
                                        !.twice = @ \/ conn.engine \in conn.disposed]
        /\ UNCHANGED <<appVars, served>>

\* close_engine: _engine = None
ClearEngine ==
    \E w \in Workers :
        /\ calls[w].pc = "clear_engine"
        /\ conn' = [conn EXCEPT !.engine = 0]
        /\ calls' = [calls EXCEPT ![w].pc = "clear_factory"]
        /\ UNCHANGED <<appVars, served>>

\* close_engine: _SessionLocal = None
ClearFactory ==
    \E w \in Workers :
        /\ calls[w].pc = "clear_factory"
        /\ conn' = [conn EXCEPT !.SessionLocal = 0]
        /\ calls' = [calls EXCEPT ![w].pc = "done"]
        /\ UNCHANGED <<appVars, served>>

\* is_lambda_warm: return _engine is not None
IsLambdaWarm ==
    \E w \in Workers :
        /\ calls[w].pc = "warm"
        /\ calls' = [calls EXCEPT ![w].warm = conn.engine # 0, ![w].pc = "done"]
        /\ UNCHANGED <<appVars, served, conn>>

\* the call of worker w has returned or raised, and the worker is free again
Return ==
    \E w \in Workers :
        /\ calls[w].pc = "done"
        /\ calls' = [calls EXCEPT ![w] = IdleCall]
        /\ UNCHANGED <<appVars, served, conn>>

\* create_db_engine on its own; a running call goes on running
RetrySteps == GetDbCredentials \/ Attempt \/ LoopExhausted \/ Sleep

NextRetry == CallCreateDbEngine \/ RetrySteps \/ Return

SpecRetry == Init /\ [][NextRetry]_vars /\ WF_vars(RetrySteps)

\* the module used by concurrent workers
NextDb ==
    \/ Call \/ Return
    \/ ReadEngine \/ CreateDbEngine \/ SetEngine \/ ReturnEngine
    \/ ReadFactory \/ SetFactory \/ ReturnFactory \/ MakeSession
    \/ Body \/ Commit \/ Rollback \/ Close
    \/ CloseCheck \/ Dispose \/ ClearEngine \/ ClearFactory \/ IsLambdaWarm

SpecDb == Init /\ [][NextDb]_vars

\* uses of get_db, one at a time
NextGetDb ==
    \/ CallGetDb \/ Return
    \/ ReadFactory \/ ReadEngine \/ CreateDbEngine \/ SetEngine \/ ReturnEngine
    \/ SetFactory \/ ReturnFactory \/ MakeSession
    \/ Body \/ Commit \/ Rollback \/ Close

SpecGetDb == Init /\ [][NextGetDb]_vars

---------------------------------------------------------------------------
(* Properties *)

\* C1: after a successful PUT /api/users/me every profile field the patch
\* omits (a missing key or a JSON null) has the value it had before, every
\* field it supplies has the supplied value (countryCode upper-cased), the
\* response shows those values, and a GET /api/users/me with the same token
\* returns them too.
C1_SparsePatchFrame ==
    (last.op = "update_current_user" /\ last.status = 200) =>
        LET id == last.cred.sub
            expected == [f \in ProfileFields |->
                            IF IsStr(last.json[f]) THEN Supplied(last.json, f)
                            ELSE last.before[id][f]]
        IN /\ \A f \in ProfileFields : users[id][f] = expected[f]
           /\ \A f \in ProfileFields : last.resp[f] = expected[f]
           /\ jwt_required(last.cred).ok =>
                /\ get_current_user(last.cred).status = 200
                /\ \A f \in ProfileFields :
                      get_current_user(last.cred).resp[f] = expected[f]

\* a patch of eight fields with a lower-case country code has been applied to
\* a user whose stored values all differed from it
C1_Witness ==
    /\ last.op = "update_current_user" /\ last.status = 200
    /\ last.json = PatchFull
    /\ \A f \in ProfileFields \ {"sex"} : last.before[last.cred.sub][f] # users[last.cred.sub][f]
    /\ users[last.cred.sub]["countryCode"] = <<"C","A">>
    /\ users[last.cred.sub]["sex"] = last.before[last.cred.sub]["sex"]

\* the two identifiers a user can log in with
Identifiers(row) == {row.email, row.username}

\* C2 as stated: after every successful password change a login with the
\* supplied current password is rejected with 401, a login with the new
\* password succeeds with a token, and verify_password(user, old) is false.
C2_Original ==
    (last.op = "change_password" /\ last.status = 204) =>
        LET user == users[last.cred.sub]
            old == last.json["currentPassword"]
            new == last.json["newPassword"]
        IN \A l \in Identifiers(user) :
              /\ login([login |-> l, password |-> old]).status = 401
              /\ login([login |-> l, password |-> new]).status = 200
              /\ ~verify_password(user, old)

\* C2, amended: after every successful password change a login with the new
\* password succeeds with 200 and a token of that user; and when the new
\* password differs from the old one within the 72 bytes bcrypt hashes, a
\* login with the old password is rejected with 401 and
\* verify_password(user, old) is false.
C2_PasswordChangeFlow ==
    (last.op = "change_password" /\ last.status = 204) =>
        LET user == users[last.cred.sub]
            old == last.json["currentPassword"]
            new == last.json["newPassword"]
        IN \A l \in Identifiers(user) :
              /\ login([login |-> l, password |-> new]).status = 200
              /\ login([login |-> l, password |-> new]).resp.accessToken.sub = user.id
              /\ Truncated(old) # Truncated(new) =>
                    /\ login([login |-> l, password |-> old]).status = 401
                    /\ ~verify_password(user, old)

\* a password has been changed to a different one
C2_Witness ==
    /\ last.op = "change_password" /\ last.status = 204
    /\ last.json["currentPassword"] = Pw1 /\ last.json["newPassword"] = Pw2
    /\ users[last.cred.sub].password_hash.key = Pw2
    /\ last.before[last.cred.sub].password_hash.key = Pw1

\* the three protected routes
Protected == {"get_current_user", "update_current_user", "change_password"}

\* C3 as stated: a protected route called with no Authorization header, or
\* with an expired or tampered token, answers 401 whatever the body is, and
\* leaves every stored user record unchanged.
C3_Unauthorized401 ==
    (/\ last.op \in Protected
     /\ (~last.cred.present \/ ~last.cred.sig \/ last.cred.exp <= last.at)) =>
        /\ last.status = 401
        /\ users = last.before

\* the passwords a client may try
Passwords == {Pw1, Pw2, PwLongA, PwLongB}

\* C4 as stated: an authenticated password change whose currentPassword does
\* not verify answers 403 and leaves the hash unchanged, so that the old
\* password still logs in and the proposed new password does not.
C4_Original ==
    (last.op = "change_password" /\ last.status = 403) =>
        LET id == last.cred.sub
            new == last.json["newPassword"]
        IN /\ users[id].password_hash = last.before[id].password_hash
           /\ \A p \in Passwords : \A l \in Identifiers(users[id]) :
                 verify_password(last.before[id], p) =>
                    login([login |-> l, password |-> p]).status = 200
           /\ \A l \in Identifiers(users[id]) :
                 login([login |-> l, password |-> new]).status = 401

\* C4, amended: an authenticated password change whose currentPassword does
\* not verify answers 403 and leaves every stored record unchanged, so that
\* the old password still logs in and the proposed new password logs in only
\* if it was the stored password already.
C4_WrongCurrentPassword ==
    /\ \A cred \in Credentials, json \in PasswordChanges \ {Malformed} :
          (/\ jwt_required(cred).ok
           /\ PasswordChangeSchemaOk(json)
           /\ cred.sub \in DOMAIN users
           /\ ~verify_password(users[cred.sub], json["currentPassword"])) =>
              change_password(cred, json).status = 403
    /\ (last.op = "change_password" /\ last.status = 403) =>
          LET id == last.cred.sub
              new == last.json["newPassword"]
          IN /\ users = last.before
             /\ ~verify_password(users[id], last.json["currentPassword"])
             /\ \A p \in Passwords : \A l \in Identifiers(users[id]) :
                   verify_password(last.before[id], p) =>
                      login([login |-> l, password |-> p]).status = 200
             /\ \A l \in Identifiers(users[id]) :
                   login([login |-> l, password |-> new]).status =
                      IF verify_password(last.before[id], new) THEN 200 ELSE 401

\* a change from a wrong current password to a new password has been refused
C4_Witness ==
    /\ last.op = "change_password" /\ last.status = 403
    /\ last.json["currentPassword"] = Pw2 /\ last.json["newPassword"] = PwLongB
    /\ users[last.cred.sub].password_hash.key = Pw1

\* C5: every stored countryCode has exactly two characters and is upper-case.
C5_CountryCodeUpper ==
    \A i \in DOMAIN users :
        /\ Len(users[i]["countryCode"]) = 2
        /\ upper(users[i]["countryCode"]) = users[i]["countryCode"]
        /\ \A k \in 1..2 : users[i]["countryCode"][k] \notin {Lower[j] : j \in 1..26}

\* one user registered with "ca", and a user updated with "ca", both stored as "CA"
C5_Witness ==
    /\ last.op = "update_current_user" /\ last.status = 200
    /\ last.json["countryCode"] = <<"c","a">>
    /\ last.before[last.cred.sub]["countryCode"] = <<"M","X">>
    /\ users[last.cred.sub]["countryCode"] = <<"C","A">>

\* C6: no profile update, whatever its payload and its outcome, changes the
\* id, the email or the username of any user.
C6_IdentityImmutable ==
    (last.op = "update_current_user") =>
        /\ DOMAIN users = DOMAIN last.before
        /\ \A i \in DOMAIN users : \A k \in IdentityKeys : users[i][k] = last.before[i][k]

\* a patch carrying id, email and username has been applied
C6_Witness ==
    /\ last.op = "update_current_user" /\ last.status = 200
    /\ last.json = PatchIdentity
    /\ users[last.cred.sub]["fullName"] = <<"P">>
    /\ last.before[last.cred.sub]["fullName"] # <<"P">>

\* the schema rules C7 names, stated on the JSON body
Violates(json) ==
    \/ \E f \in {"stateProvinceCode", "countryCode"} : IsStr(json[f]) /\ Len(json[f]) # 2
    \/ IsStr(json["sex"]) /\ json["sex"] \notin {MALE, FEMALE, OTHER_}
    \/ \E f \in {"fullName", "addressLine1", "city", "postalCode"} :
          IsStr(json[f]) /\ Len(json[f]) = 0
    \/ \E f \in ProfileFields \ {"sex"} : IsStr(json[f]) /\ Len(json[f]) > ColumnMax[f]

\* C7: an authenticated profile update in which a supplied field violates its
\* schema rule is answered 422 and changes no field of any stored record.
C7_InvalidPatchRejected ==
    (/\ last.op = "update_current_user"
     /\ last.json # Malformed
     /\ Violates(last.json)
     /\ last.cred.present /\ last.cred.sig /\ last.cred.exp > last.at) =>
        /\ last.status = 422
        /\ users = last.before

\* a patch with a one-character state code next to two valid fields was refused
C7_Witness ==
    /\ last.op = "update_current_user" /\ last.status = 422
    /\ last.cred.sig
    /\ last.json["stateProvinceCode"] = <<"T">>
    /\ last.json["fullName"] = <<"P">>
    /\ users[last.cred.sub]["fullName"] # <<"P">>

\* C8: no two stored users share an email and no two share a username; a
\* registration whose email is already taken under a different username when
\* it is handled fails with DUPLICATE_EMAIL and status 400; a registration
\* that fails inserts nothing; and a registration whose email has been taken
\* by a concurrent one while it was in progress does not succeed, so that of
\* two concurrent registrations of one email at most one succeeds.
C8_Uniqueness ==
    /\ \A i, j \in DOMAIN users :
          i # j => /\ users[i].email # users[j].email
                   /\ users[i].username # users[j].username
    /\ (/\ last.op = "register"
        /\ last.json # Malformed
        /\ UserRegisterSchemaOk(last.json)
        /\ \E i \in DOMAIN last.seen :
              /\ last.seen[i].email = last.json["email"]
              /\ last.seen[i].username # last.json["username"]) =>
          /\ last.status = 400
          /\ last.resp = Error("DUPLICATE_EMAIL")
    /\ (last.op = "register" /\ last.status # 201) => users = last.before
    /\ (/\ last.op = "register"
        /\ last.json # Malformed
        /\ \E i \in DOMAIN last.before : last.before[i].email = last.json["email"]) =>
          last.status # 201

\* two registrations of one email were in progress together: neither saw the
\* email taken, one has been stored and the other has just been refused
C8_Witness ==
    /\ last.op = "register" /\ last.status = 400
    /\ last.json = RegSameEmail
    /\ last.seen = <<>>
    /\ DOMAIN users = {1} /\ users[1].email = EmailA /\ users[1].username = Ann
    /\ users = last.before

\* C9: a login whose identifier matches no user and a login whose identifier
\* matches a user but whose password is wrong are both answered 401, with
\* the same response body.
C9_UniformAuthError ==
    LET valid == {a \in Logins \ {Malformed} : UserLoginSchemaOk(a)}
        unknown == {a \in valid : find_user(a["login"]) = {}}
        wrong == {b \in valid : \E i \in find_user(b["login"]) :
                                   ~verify_password(users[i], b["password"])}
    IN \A a \in unknown, b \in wrong :
            /\ login(a).status = 401
            /\ login(b).status = 401
            /\ login(a).resp = login(b).resp

\* a login with the wrong password for a stored user has been refused while
\* another identifier matches no user
C9_Witness ==
    /\ last.op = "login" /\ last.status = 401
    /\ last.json["login"] = Ann /\ last.json["password"] = Pw2
    /\ find_user(Ann) # {}
    /\ find_user(EmailC) = {}
    /\ users = last.before

\* C10: after a registration answered 201, a login with the registered email
\* or the registered username and the registered password is answered 200
\* with a token that verifies and whose subject is the id of the new user.
C10_RegisterThenLogin ==
    (last.op = "register" /\ last.status = 201) =>
        /\ last.resp["id"] \in DOMAIN users \ DOMAIN last.before
        /\ users[last.resp["id"]].email = last.json["email"]
        /\ \A l \in {last.json["email"], last.json["username"]} :
              LET reply == login([login |-> l, password |-> last.json["password"]]) IN
              /\ reply.status = 200
              /\ jwt_required(reply.resp.accessToken).ok
              /\ jwt_required(reply.resp.accessToken).identity = last.resp["id"]

\* a second user has registered, under the username that is the first user's
\* in other runs, next to a first user with a long password
C10_Witness ==
    /\ last.op = "register" /\ last.status = 201
    /\ last.json = RegSameUsername
    /\ last.resp["id"] = 2
    /\ users[1].email = EmailA /\ users[1].password_hash.key = Truncated(PwLongA)


\* C11: the stored password hash of a user changes only in a password change
\* answered 204: GET /api/users/me, every profile update (applied or refused),
\* every login and every refused password change leave every hash unchanged.
C11_HashOnlyByPasswordChange ==
    (/\ last.op \in {"get_current_user", "update_current_user", "login", "change_password"}
     /\ ~(last.op = "change_password" /\ last.status = 204)) =>
        \A i \in DOMAIN last.before :
            /\ i \in DOMAIN users
            /\ users[i].password_hash = last.before[i].password_hash

\* a profile update has changed the row and has left its hash alone
C11_Witness ==
    /\ last.op = "update_current_user" /\ last.status = 200
    /\ users[last.cred.sub] # last.before[last.cred.sub]
    /\ users[last.cred.sub].password_hash = last.before[last.cred.sub].password_hash

\* the keys of a serialized user
ResponseKeys == ProfileFields \cup IdentityKeys \cup {"createdAt", "updatedAt"}

\* C12: a response of GET /api/users/me or PUT /api/users/me answered 200
\* has exactly the keys id, email, username, the nine profile fields,
\* createdAt and updatedAt, hence no password, passwordHash or password_hash;
\* and a stored user serializes the same whatever its password hash is.
C12_NoSecretInResponse ==
    /\ (last.op \in {"get_current_user", "update_current_user"} /\ last.status = 200) =>
          /\ DOMAIN last.resp = ResponseKeys
          /\ DOMAIN last.resp \cap {"password", "passwordHash", "password_hash"} = {}
    /\ \A i \in DOMAIN users :
          LET other == [users[i] EXCEPT !.password_hash = hashpw(Pw2, 0)] IN
          /\ other # users[i]
          /\ UserResponseSchema(other) = UserResponseSchema(users[i])
          /\ \A cred \in Credentials :
                jwt_required(cred).identity = i =>
                    get_current_user(cred).resp = UserResponseSchema(other)

\* GET /api/users/me has answered with the profile of a user with a stored hash
C12_Witness ==
    /\ last.op = "get_current_user" /\ last.status = 200
    /\ users[last.cred.sub].password_hash.key = Pw1
    /\ last.resp["email"] = EmailA


\* C13: a token stays valid after a password change and after a logout: once
\* a password change (204) or a logout (200) has been answered to a token,
\* then until the token expires GET /api/users/me answers 200 with the
\* profile of the token's subject, and POST /api/auth/logout answers 200.
C13_TokenSurvives ==
    (/\ \/ last.op = "change_password" /\ last.status = 204
        \/ last.op = "logout" /\ last.status = 200
     /\ last.cred.exp > now) =>
        /\ get_current_user(last.cred).status = 200
        /\ get_current_user(last.cred).resp["id"] = last.cred.sub
        /\ logout(last.cred).status = 200

\* the password was changed one tick after registration, with a token that
\* has not expired
C13_Witness ==
    /\ last.op = "change_password" /\ last.status = 204
    /\ last.cred.exp > now
    /\ users[last.cred.sub].updatedAt > users[last.cred.sub].createdAt
    /\ users[last.cred.sub].password_hash # last.before[last.cred.sub].password_hash


\* C14: a profile update is idempotent: after an update answered 200, sending
\* the same patch again with the same token, at once or later while the token
\* is valid, is answered 200 with the same body and leaves the table as it is.
C14_Idempotent ==
    (/\ last.op = "update_current_user" /\ last.status = 200
     /\ jwt_required(last.cred).ok) =>
        LET again == update_current_user(last.cred, last.json) IN
        /\ again.status = 200
        /\ again.table = users
        /\ again.resp = last.resp

\* a patch has changed the row, time has passed since, and the token is
\* still valid
C14_Witness ==
    /\ last.op = "update_current_user" /\ last.status = 200
    /\ last.json = PatchFull
    /\ users[last.cred.sub] # last.before[last.cred.sub]
    /\ now > last.at
    /\ jwt_required(last.cred).ok


\* the patch of the last request supplies a value the row did not have
PatchChanges(json, row) ==
    \E f \in ProfileFields : IsStr(json[f]) /\ Supplied(json, f) # row[f]

\* createdAt is the time of the registration and no later request changes it;
\* updatedAt never decreases and is never earlier than createdAt
TimestampsOrdered ==
    /\ (last.op = "register" /\ last.status = 201) =>
          /\ users[last.resp["id"]].createdAt = last.at
          /\ users[last.resp["id"]].updatedAt = last.at
    /\ \A i \in DOMAIN last.before :
          /\ users[i].createdAt = last.before[i].createdAt
          /\ users[i].updatedAt >= last.before[i].updatedAt
    /\ \A i \in DOMAIN users : users[i].updatedAt >= users[i].createdAt

\* C15 as stated: createdAt is set once and never changed; every successful
\* profile update and every successful password change sets updatedAt to the
\* current time; updatedAt never decreases and is never before createdAt.
C15_Original ==
    /\ TimestampsOrdered
    /\ (\/ last.op = "update_current_user" /\ last.status = 200
        \/ last.op = "change_password" /\ last.status = 204) =>
          users[last.cred.sub].updatedAt = last.at

\* C15, amended: createdAt is set once and never changed; every successful
\* password change and every successful profile update that changes at least
\* one field sets updatedAt to the current time, and a successful profile
\* update that changes no field leaves updatedAt as it was; updatedAt never
\* decreases and is never before createdAt.
C15_Timestamps ==
    /\ TimestampsOrdered
    /\ (last.op = "change_password" /\ last.status = 204) =>
          users[last.cred.sub].updatedAt = last.at
    /\ (last.op = "update_current_user" /\ last.status = 200) =>
          users[last.cred.sub].updatedAt =
              IF PatchChanges(last.json, last.before[last.cred.sub])
              THEN last.at
              ELSE last.before[last.cred.sub].updatedAt

\* a patch applied after the clock has moved on has refreshed updatedAt and
\* has left createdAt alone
C15_Witness ==
    /\ last.op = "update_current_user" /\ last.status = 200
    /\ PatchChanges(last.json, last.before[last.cred.sub])
    /\ users[last.cred.sub].createdAt = 0
    /\ last.before[last.cred.sub].updatedAt = 0
    /\ users[last.cred.sub].updatedAt = last.at /\ last.at > 0


\* C16: an update is all-or-nothing: when a request has been abandoned after
\* some of its assignments, or refused, the stored records are what they
\* were; when it has been answered 200, the stored record, as GET
\* /api/users/me shows it, holds every field the patch supplied.
C16_AllOrNothing ==
    /\ last.op = "abandoned" => users = last.before
    /\ (last.op = "update_current_user" /\ last.status # 200) => users = last.before
    /\ (last.op = "update_current_user" /\ last.status = 200) =>
          \A f \in ProfileFields :
              IsStr(last.json[f]) =>
                  /\ users[last.cred.sub][f] = Supplied(last.json, f)
                  /\ get_current_user(last.cred).resp[f] = Supplied(last.json, f)

\* the part of C16 about abandoned requests: a request abandoned between its
\* assignments and its commit, whose session held some but not all of the
\* supplied values, leaves every stored record as it was.
C16_AbandonedInvisible ==
    last.op = "abandoned" =>
        /\ users = last.before
        /\ get_current_user(last.cred).resp = UserResponseSchema(last.before[last.cred.sub])

\* a request was abandoned when its session held the new name and not yet
\* the new phone number
C16_Witness ==
    /\ last.op = "abandoned"
    /\ last.json = PatchPartial
    /\ last.resp["fullName"] = <<"P">> /\ last.resp["phoneNumber"] # <<"8">>
    /\ users[last.cred.sub]["fullName"] # <<"P">>


\* C17: a profile update or a password change made with a token writes only
\* the record whose id is the token's subject: whatever requests of other
\* users are in progress, it leaves every other record unchanged, adds and
\* removes none, and a 200 answer shows the subject's own record.
C17_Isolation ==
    (last.op \in {"update_current_user", "change_password", "abandoned"}) =>
        /\ DOMAIN users = DOMAIN last.before
        /\ \A i \in DOMAIN users : i # last.cred.sub => users[i] = last.before[i]
        /\ (last.op = "update_current_user" /\ last.status = 200) =>
              /\ last.resp["id"] = last.cred.sub
              /\ last.resp = UserResponseSchema(users[last.cred.sub])

\* the second user's update has been committed while an update of the first
\* user is in progress
C17_Witness ==
    /\ last.op = "update_current_user" /\ last.status = 200
    /\ last.cred.sub = 2
    /\ users[2] # last.before[2]
    /\ users[1] = last.before[1]
    /\ \E w \in Workers : reqs[w].pending /\ reqs[w].cred.sub = 1


\* the password rule in the words of the specification
PasswordRule(p) ==
    /\ IsStr(p)
    /\ Len(p) >= 8
    /\ \E i \in 1..Len(p) : p[i] \in Digit
    /\ \E i \in 1..Len(p) : p[i] \in Letters

SamplePasswords ==
    {Pw1, Pw2, PwLongA, PwNoDigit, PwNoAlpha, PwShort, Pw7, <<>>, Absent, Null}

\* C18: a registration password and a change-password newPassword pass their
\* schema exactly when they have at least 8 characters, a digit and a letter,
\* by the same rule in both schemas; a registration, and an authenticated
\* password change, whose password breaks the rule is answered 422 with the
\* password field among the details and stores nothing, and a password that
\* keeps the rule is never among the details of a 422.  (The schemas do not
\* depend on the state, so the sample passwords are tried before the first
\* request only.)
C18_PasswordRule ==
    /\ \A p \in (IF served = 0 THEN SamplePasswords ELSE {}) :
          LET reg == [RegAnn EXCEPT !.password = p]
              chg == [currentPassword |-> Pw1, newPassword |-> p]
          IN /\ UserRegisterSchemaOk(reg) <=> PasswordRule(p)
             /\ PasswordChangeSchemaOk(chg) <=> PasswordRule(p)
             /\ UserRegisterSchemaErrors(reg) =
                    IF PasswordRule(p) THEN {} ELSE {"password"}
             /\ PasswordChangeSchemaErrors(chg) =
                    IF PasswordRule(p) THEN {} ELSE {"newPassword"}
    /\ (last.op = "register" /\ last.json # Malformed) =>
          IF PasswordRule(last.json["password"])
          THEN last.status = 422 => "password" \notin last.resp.details
          ELSE /\ last.status = 422
               /\ last.resp.error = "Validation Error"
               /\ "password" \in last.resp.details
               /\ users = last.before
    /\ (/\ last.op = "change_password" /\ last.json # Malformed
        /\ last.cred.present /\ last.cred.sig /\ last.cred.exp > last.at) =>
          IF PasswordRule(last.json["newPassword"])
          THEN last.status = 422 => "newPassword" \notin last.resp.details
          ELSE /\ last.status = 422
               /\ last.resp.error = "Validation Error"
               /\ "newPassword" \in last.resp.details
               /\ users = last.before

\* a logged-in user's change to a new password of eight digits has been
\* refused with 422 naming newPassword
C18_Witness ==
    /\ last.op = "change_password" /\ last.status = 422
    /\ last.cred.present /\ last.cred.sig /\ last.cred.exp > last.at
    /\ last.json # Malformed
    /\ last.json["newPassword"] = PwNoAlpha
    /\ verify_password(users[last.cred.sub], last.json["currentPassword"])
    /\ last.resp.details = {"newPassword"}

\* the routes that take a JSON body, and the fields of a parsed body that the
\* schema of the route rejects
BodyOps == {"register", "login", "update_current_user", "change_password"}
SchemaErrorsOf(op, json) ==
    CASE op = "register" -> UserRegisterSchemaErrors(json)
      [] op = "login" -> UserLoginSchemaErrors(json)
      [] op = "update_current_user" -> UserUpdateSchemaErrors(json)
      [] op = "change_password" -> PasswordChangeSchemaErrors(json)

\* the request got past the bearer-token check of its route, if it has one
PastAuth ==
    \/ last.op \in {"register", "login"}
    \/ last.cred.present /\ last.cred.sig /\ last.cred.exp > last.at

\* C19: a request whose parsed body fails its schema is answered 422 with the
\* body {error: "Validation Error", details}; a request whose body cannot be
\* parsed is answered 400; and 422 is the answer to validation failures only,
\* 400 never the answer to one.
C19_ErrorSplit ==
    /\ (last.op \in BodyOps /\ PastAuth /\ last.json # Malformed
            /\ SchemaErrorsOf(last.op, last.json) # {}) =>
          /\ last.status = 422
          /\ last.resp = [error |-> "Validation Error",
                          details |-> SchemaErrorsOf(last.op, last.json)]
    /\ (last.op \in BodyOps /\ PastAuth /\ last.json = Malformed) =>
          last.status = 400
    /\ last.status = 400 =>
          \/ last.json = Malformed
          \/ SchemaErrorsOf(last.op, last.json) = {}
    /\ last.status = 422 =>
          /\ last.op \in BodyOps
          /\ last.json # Malformed
          /\ SchemaErrorsOf(last.op, last.json) # {}

\* C19 for the requests that do not carry a token with a bad signature: the
\* same split of 422 and 400.
C19_BodyErrorSplit ==
    (last.op # "none" /\ ~(last.cred.present /\ ~last.cred.sig)) => C19_ErrorSplit

\* a logged-in user's update with an unparseable body has been answered 400
C19_Witness ==
    /\ last.op = "update_current_user"
    /\ last.cred.present /\ last.cred.sig /\ last.cred.exp > last.at
    /\ last.json = Malformed
    /\ last.status = 400
    /\ last.cred.sub \in DOMAIN users

\* C20: GET /api/users/me with a valid bearer token of an existing user is
\* answered 200 with the profile of the user whose id is the token's subject,
\* under the camelCase field names.
C20_AppGetCurrentUser ==
    (/\ last.op = "get_current_user"
     /\ last.cred.present /\ last.cred.sig /\ last.cred.exp > last.at
     /\ last.cred.sub \in DOMAIN users) =>
        /\ last.status = 200
        /\ DOMAIN last.resp = ResponseKeys
        /\ last.resp["id"] = last.cred.sub
        /\ last.resp = UserResponseSchema(users[last.cred.sub])
        /\ \A i \in DOMAIN users \ {last.cred.sub} :
               last.resp # UserResponseSchema(users[i])

\* a registered user has logged in and has asked the application for
\* /api/users/me with the token it was given
C20_Witness ==
    /\ last.op = "get_current_user"
    /\ last.cred.present /\ last.cred.sig /\ last.cred.exp > last.at
    /\ last.cred.sub \in DOMAIN users
    /\ last.cred = held

\* the outcome the check order of PUT /api/users/me/password prescribes
CheckOrderStatus(cred, json, table, at) ==
    IF ~cred.present \/ ~cred.sig \/ cred.exp <= at THEN 401
    ELSE IF PasswordChangeSchemaErrors(json) # {} THEN 422
    ELSE IF cred.sub \notin DOMAIN table THEN 404
    ELSE IF ~checkpw(json["currentPassword"], table[cred.sub].password_hash) THEN 403
    ELSE 204

\* C21: PUT /api/users/me/password is answered 401 when the token is missing
\* or invalid, whatever the body; otherwise 422 when the body fails its
\* schema; otherwise 404 when the token's subject is not stored; otherwise
\* 403 when currentPassword does not verify; otherwise 204.  Only a 204
\* changes the table, and a request answered 401 or 422 never gets as far as
\* verifying the current password.
C21_CheckOrder ==
    (/\ last.op = "change_password"
     /\ (last.json = Malformed =>
            ~last.cred.present \/ ~last.cred.sig \/ last.cred.exp <= last.at)) =>
        /\ last.status = CheckOrderStatus(last.cred, last.json, last.before, last.at)
        /\ last.status # 204 => users = last.before
        /\ (last.status \in {401, 422} /\ now = last.at) =>
               ~change_password_verifies(last.cred, last.json)

\* C21 for the requests whose token, if they carry one, has a good signature
C21_CheckOrderSigned ==
    (last.cred.present => last.cred.sig) => C21_CheckOrder

\* a password change with a valid body and a token that verifies, of a user
\* that is not stored, has been answered 404 next to a stored user
C21_Witness ==
    /\ last.op = "change_password" /\ last.status = 404
    /\ last.cred.present /\ last.cred.sig /\ last.cred.exp > last.at
    /\ PasswordChangeSchemaOk(last.json)
    /\ users # <<>>


\* the direct calls of create_db_engine that are running or have just ended
RetryCalls == {w \in Workers : calls[w].op = "create_db_engine"}

Max0(n) == IF n < 0 THEN 0 ELSE n

\* what claim C22 says of one call of create_db_engine, as far as it has run
RetryBounded(f) ==
    /\ f.attempts <= Max0(f.max_retries)
    /\ f.sleeps <= Max0(f.max_retries - 1)
    /\ f.slept = f.sleeps * f.retry_delay
    /\ f.pc = "done" =>
          /\ (f.exc = "none") # (f.eng = 0)
          \* the engine is the one of the first attempt that succeeded: every
          \* attempt before it failed and was followed by a sleep
          /\ f.exc = "none" => f.attempts >= 1 /\ f.sleeps = f.attempts - 1
          \* OperationalError leaves the call only after max_retries attempts,
          \* and the last one is not followed by a sleep
          /\ f.exc = "OperationalError" =>
                f.attempts = f.max_retries /\ f.sleeps = f.max_retries - 1
          \* another exception of an attempt leaves the call at once
          /\ f.exc = "Exception" /\ f.attempts > 0 => f.sleeps = f.attempts - 1
          /\ f.max_retries <= 0 => f.attempts = 0 /\ f.exc # "none"

C22_RetryBounded == \A w \in RetryCalls : RetryBounded(calls[w])

\* C22: create_db_engine always terminates: it makes at most max_retries
\* attempts, returns the engine of the first attempt that succeeds, sleeps
\* retry_delay after each failed attempt but the last, raises the
\* OperationalError after max_retries such failures, lets any other exception
\* through at once, and with max_retries <= 0 makes no attempt and raises.
C22_CreateDbEngine ==
    /\ []C22_RetryBounded
    /\ \A w \in Workers :
          (calls[w].op = "create_db_engine") ~> (calls[w].pc = "done")

\* C22 witness: a call with three retries that got its engine from the third
\* attempt, after two failures and two sleeps of retry_delay each.
C22_Witness ==
    \E w \in RetryCalls :
        /\ calls[w].pc = "done" /\ calls[w].exc = "none" /\ calls[w].eng # 0
        /\ calls[w].max_retries = 3 /\ calls[w].attempts = 3
        /\ calls[w].sleeps = 2 /\ calls[w].slept = 2 * DefaultRetryDelay


\* C23: between two consecutive calls of close_engine, whatever calls of
\* get_engine, get_session_factory, get_session and get_db are made, by one
\* worker or by several at once, the engine is created at most once and every
\* call returns or uses that one engine.
C23_SingleEngine ==
    /\ Cardinality(conn.made) <= 1
    /\ conn.handed \subseteq conn.made

\* C23, for calls that are made one after the other: as long as no two calls
\* of the module have been in progress together, the engine is created at
\* most once between two calls of close_engine and is the one every call gets.
C23_SingleEngineSequential == ~conn.overlap => C23_SingleEngine

\* C23 witness: with no two calls ever in progress together, a later call of
\* get_session has got a session on the engine an earlier call had created.
C23_Witness ==
    /\ ~conn.overlap
    /\ served >= 2
    /\ \E w \in Workers :
          /\ calls[w].op = "get_session" /\ calls[w].pc = "done"
          /\ calls[w].eng = 0
          /\ calls[w].session = conn.engine /\ conn.engine # 0
          /\ conn.made = {conn.engine}


\* no call of the module is in progress
Quiescent == \A w \in Workers : ~Busy(w)

\* the calls of op that have just ended
Ended(op) == {w \in Workers : calls[w].op = op /\ calls[w].pc = "done"}

\* C30: after any sequence and any interleaving of get_engine,
\* get_session_factory, get_session and close_engine calls, a cached session
\* factory comes with a cached engine and is bound to it, never to a disposed
\* engine; is_lambda_warm() is true exactly when an engine is cached;
\* close_engine leaves both caches empty and is a no-op when repeated.
C30_ConnInvariant ==
    Quiescent =>
        /\ conn.SessionLocal # 0 =>
              /\ conn.engine # 0
              /\ conn.SessionLocal = conn.engine
              /\ conn.SessionLocal \notin conn.disposed
        \* a result is compared with the caches only when no other call can
        \* have changed them since
        /\ ~conn.overlap =>
              /\ \A w \in Ended("is_lambda_warm") : calls[w].warm = (conn.engine # 0)
              /\ \A w \in Ended("close_engine") :
                    conn.engine = 0 /\ conn.SessionLocal = 0
        /\ \A w \in Ended("close_engine") : calls[w].exc = "none"
        /\ ~conn.twice

\* C30, for calls that are made one after the other: as long as no two calls
\* of the module have been in progress together, the cached factory is bound
\* to the cached engine, is_lambda_warm() tells whether an engine is cached,
\* and close_engine empties both caches and disposes no engine twice.
C30_ConnInvariantSequential == ~conn.overlap => C30_ConnInvariant

\* C30 witness: one call after the other, a session factory is cached again
\* after close_engine has disposed the first engine, bound to the new engine.
C30_Witness ==
    /\ ~conn.overlap /\ Quiescent
    /\ conn.disposed # {}
    /\ conn.SessionLocal # 0 /\ conn.SessionLocal = conn.engine
    /\ conn.engine \notin conn.disposed


\* what claim C24 has the session go through in a use of get_db that has ended
ClaimedLog(f) ==
    IF f.body = "normal" /\ f.exc = "none" THEN <<"commit", "close">>
    ELSE <<"rollback", "close">>

\* what the session goes through when BaseException and a failing rollback
\* are told apart
ExceptionLog(f) ==
    IF f.exc \in {"BaseException", "RollbackError"} THEN <<"close">>
    ELSE ClaimedLog(f)

\* the uses of get_db that got a session and have ended
UsesEnded == {w \in Ended("get_db") : calls[w].body # "none"}

\* C24: in every use of get_db exactly one of commit and rollback completes
\* the body (commit when it ends normally, rollback when it or the commit
\* raises), the session is closed exactly once and after that, and an
\* exception raised inside is re-raised to the caller.
C24_SessionProtocol ==
    \A w \in UsesEnded :
        /\ calls[w].log = ClaimedLog(calls[w])
        /\ calls[w].body # "normal" => calls[w].exc = calls[w].body

\* C24, amended: in every use of get_db the session is closed exactly once,
\* as the last thing done with it, and whatever the body or the commit
\* raises reaches the caller; commit completes when the body ends normally,
\* rollback when the body or the commit raises an Exception; when the body
\* raises a BaseException that is no Exception, or the rollback itself
\* raises, neither commit nor rollback completes.
C24_SessionProtocolException ==
    \A w \in UsesEnded :
        /\ calls[w].log = ExceptionLog(calls[w])
        /\ calls[w].body # "normal" => calls[w].exc \in {calls[w].body, "RollbackError"}
        /\ calls[w].body = "BaseException" => calls[w].exc = "BaseException"
        /\ calls[w].exc = "none" => calls[w].log = <<"commit", "close">>

\* C24 witness: a use of get_db whose commit raised has rolled the session
\* back, closed it and raised.
C24_Witness ==
    \E w \in UsesEnded :
        /\ calls[w].body = "normal" /\ calls[w].exc = "CommitError"
        /\ calls[w].log = <<"rollback", "close">>


\* C25: update_user_profile(user, profile_data) gives the stored field of
\* each of the nine keys present in profile_data the supplied value (the
\* country code upper-cased), leaves the fields of absent keys unchanged, and
\* commits.
C25_ProfileStored ==
    last.op = "update_user_profile" =>
        LET id == last.resp.id IN
        \A key \in ServiceKeys :
            users[id][StoredField(key)] =
                IF last.json[key] # Absent THEN ServiceValue(last.json, key)
                ELSE last.before[id][StoredField(key)]

\* C25, as far as it holds: update_user_profile stores the supplied sex and
\* city, leaves every other stored field but updated-at as it was, and the
\* returned user is the committed row.
C25_SexAndCityStored ==
    last.op = "update_user_profile" =>
        LET id == last.resp.id IN
        /\ \A f \in DOMAIN users[id] \ {"updatedAt"} :
              users[id][f] =
                  IF f \in {"sex", "city"} /\ last.json[f] # Absent THEN last.json[f]
                  ELSE last.before[id][f]
        /\ last.resp = users[id]
        /\ \A other \in DOMAIN users \ {id} : users[other] = last.before[other]

\* C25 witness: a call with sex and city in profile_data has changed both in
\* the stored row.
C25_Witness ==
    /\ last.op = "update_user_profile"
    /\ last.json = DataSexCity
    /\ users[last.resp.id].sex = FEMALE /\ last.before[last.resp.id].sex # FEMALE
    /\ users[last.resp.id].city = <<"N">>


\* the configurations claim C26 names as never creating tables
NoTableConfigs == {"production", "testing", "development-local", "development-cloud"}

\* C26: create_app calls db.create_all when, and only when, it runs with the
\* development configuration; with production, testing, development-local or
\* development-cloud it never does; a failing table creation does not abort
\* the start.
C26_CreateAllInDevelopment ==
    last.op = "create_app" =>
        /\ last.resp.create_all <=> last.resp.config = "development"
        /\ last.resp.config \in NoTableConfigs => ~last.resp.create_all
        /\ last.resp.create_all /\ last.json.env.create_all_fails => last.resp.started

\* C26, as far as it holds: create_app never calls db.create_all; with
\* production, testing, development-local or development-cloud the
\* application starts without creating tables, and with development the
\* start is aborted by the KeyError of the configuration lookup.
C26_NeverCreateAll ==
    last.op = "create_app" =>
        /\ ~last.resp.create_all /\ ~last.resp.tables
        /\ last.resp.config \in NoTableConfigs => last.resp.started
        /\ last.resp.config = "development" =>
              ~last.resp.started /\ last.resp.exc = "KeyError"

\* C26 witness: the application has been started with FLASK_ENV=development
\* and no argument, outside Lambda.
C26_Witness ==
    /\ last.op = "create_app"
    /\ last.json.config_name = Unset
    /\ ~last.json.env.AWS_LAMBDA_FUNCTION_NAME
    /\ last.json.env.FLASK_ENV = "development"
    /\ last.resp.config = "development"


\* C27: a profile update cannot clear an optional field: an explicit null for
\* phoneNumber or addressLine2 in the patch is treated like a missing key, and
\* a stored phoneNumber or addressLine2 that is not null is never null after
\* a request.
C27_OptionalNeverCleared ==
    /\ \A id \in DOMAIN last.before \cap DOMAIN users :
          \A f \in Nullable :
              last.before[id][f] # None => users[id][f] # None
    /\ last.op = "update_current_user" /\ last.status = 200 =>
          \A f \in Nullable :
              last.json[f] = Null =>
                  users[last.cred.sub][f] = last.before[last.cred.sub][f]

\* C27 witness: a patch with null for phoneNumber and addressLine2 has been
\* answered 200 for a user with a stored phone number, which is still there.
C27_Witness ==
    /\ last.op = "update_current_user" /\ last.status = 200
    /\ last.json # Malformed
    /\ last.json["phoneNumber"] = Null /\ last.json["addressLine2"] = Null
    /\ last.before[last.cred.sub]["phoneNumber"] # None
    /\ users[last.cred.sub]["phoneNumber"] = last.before[last.cred.sub]["phoneNumber"]
    /\ users[last.cred.sub] # last.before[last.cred.sub]


\* the last request sent a user's own stored profile as a patch, with a
\* token that was accepted
Resubmitted ==
    /\ last.op = "update_current_user"
    /\ last.status # 401
    /\ last.cred.sub \in DOMAIN last.before
    /\ last.json = OwnProfile(last.before[last.cred.sub])

\* C28: registration and update validation agree: the profile fields of a
\* body accepted at registration are accepted as a patch, and a user who
\* sends the stored profile back as a patch gets 200.
C28_SchemasAgree ==
    /\ served = 0 =>
          \A json \in Registrations \ {Malformed} :
              UserRegisterSchemaOk(json) => UserUpdateSchemaOk(AsPatch(json))
    /\ Resubmitted => last.status = 200 /\ users = last.before

\* C28, as far as it holds: the two schemas agree on bodies whose
\* stateProvinceCode has two characters, and a user whose stored
\* stateProvinceCode has two characters gets 200 for the stored profile.
C28_AgreeButStateCode ==
    /\ served = 0 =>
          \A json \in Registrations \ {Malformed} :
              UserRegisterSchemaOk(json) /\ Len(json["stateProvinceCode"]) = 2
                  => UserUpdateSchemaOk(AsPatch(json))
    /\ Resubmitted /\ Len(last.before[last.cred.sub]["stateProvinceCode"]) = 2
          => last.status = 200 /\ users = last.before

\* C28 witness: a user registered with a two-character stateProvinceCode has
\* sent the stored profile back and got 200.
C28_Witness ==
    /\ Resubmitted
    /\ last.status = 200
    /\ last.json["stateProvinceCode"] = <<"T","C">>


\* the last request was a password change answered 204
PasswordChanged == last.op = "change_password" /\ last.status = 204

\* C29: with password changes of one user in progress together, a request
\* is answered 204 only if its currentPassword matches the hash stored at the
\* moment its new hash is committed.
C29_CurrentAtCommit ==
    PasswordChanged =>
        verify_password(last.before[last.cred.sub], last.json["currentPassword"])

\* C29, as far as it holds: a request is answered 204 only if its
\* currentPassword matches the hash of the row as the request loaded it, and
\* then the row holds the hash of its newPassword.
C29_CurrentAtLoad ==
    PasswordChanged =>
        /\ verify_password(last.seen[last.cred.sub], last.json["currentPassword"])
        /\ verify_password(users[last.cred.sub], last.json["newPassword"])

\* C29 witness: a password change has been committed after another request
\* had changed the row it had loaded.
C29_Witness ==
    /\ PasswordChanged
    /\ last.seen[last.cred.sub].password_hash # last.before[last.cred.sub].password_hash

===========================================================================
